---- MODULE Spec2Model ----
(***************************************************************************)
(* Model of the device-automation orchestrator (edge function              *)
(* device-automation), the update-adb-url edge function and the parts of   *)
(* the dashboard and of the ADB HTTP server (the hardware-control agent)   *)
(* they interact with.                                                     *)
(*                                                                         *)
(* The record store is taken to accept every read and write of devices,    *)
(* bot_sessions and bot_actions that violates no constraint; the faults     *)
(* modelled are those of the agent, of the vision backend and of the        *)
(* address configuration (adb_server_config), whose insert may fail.        *)
(***************************************************************************)
EXTENDS Integers, Sequences, FiniteSets, TLC

\* ------------------------------------------------------------------ bounds
MaxIter == 2          \* largest iterations value a caller passes to run_bot_loop
MaxActions == 2       \* bot_actions rows written in one behaviour
MaxSessions == 2      \* bot_sessions rows created in one behaviour
MaxRows == 3          \* adb_server_config rows in one behaviour
MaxRand == 0          \* Math.floor(Math.random() * k) yields 0..MaxRand
MaxPkgs == 3          \* longest package list given to a classifier

\* --------------------------------------------------------- program constants
ScreenshotTimeoutMs == 15000
ActionTimeoutMs == 5000
DevicesTimeoutMs == 5000
HealthTimeoutMs == 5000
LaunchTimeoutMs == 15000
ScanTimeoutMs == 15000
CenterX == 360
CenterY == 640
NoTimeout == 0        \* a fetch issued without an AbortSignal

\* ------------------------------------------------------------------- values
NoUrl == "none"
Urls == {"u1", "u2"}
DurableIds == {"d1", "d2"}
HwIds == {"hA", "hB"}
NoId == "null"
Procs == {1, 2}

\* Games a session can be started for: game_name and package_name.
TilePark == [name |-> "Tile Park", pkg |-> "com.funvent.tilepark"]
CandyCrush == [name |-> "Candy Crush Saga", pkg |-> "com.king.candycrushsaga"]
PoolGame == [name |-> "8 Ball Pool", pkg |-> "com.miniclip.eightballpool"]
Games == {TilePark, CandyCrush, PoolGame}

VARIABLES
  cfg,        \* adb_server_config rows, in insertion order: [url, active]
  envUrl,     \* the ADB_SERVER_URL environment variable, or NoUrl
  visionKey,  \* whether LOVABLE_API_KEY is configured
  devices,    \* devices rows: durable id -> [name, hw, status]
  sessions,   \* bot_sessions rows; the row's id is its index
  actions,    \* bot_actions rows, append-only
  loops,      \* the run_bot_loop invocations, one per slot of Procs
  upd,        \* the update-adb-url invocations, one per updater
  conn,       \* the connect_device invocations that run in steps, one per caller
  resp        \* the last entry-point call of the other kinds: what was
              \* asked and what was answered

vars == <<cfg, envUrl, visionKey, devices, sessions, actions, loops, upd, conn, resp>>

\* ------------------------------------------------------------ small helpers
Max(S) == CHOOSE m \in S : \A k \in S : k <= m

\* coordinates of a DeviceAction: absent, numeric, or present but not numbers
\* (NaN, which JSON.stringify writes as null).
NoCoords == [has |-> FALSE, num |-> FALSE, x |-> 0, y |-> 0]
Coords(x, y) == [has |-> TRUE, num |-> TRUE, x |-> x, y |-> y]
NaNCoords == [has |-> TRUE, num |-> FALSE, x |-> 0, y |-> 0]
NoPkg == ""

\* A DeviceAction as it is serialised into the body of POST /action.
Tap(c, dev) == [type |-> "tap", coordinates |-> c, packageName |-> NoPkg, deviceId |-> dev]
AppAction(t, pkg, dev) == [type |-> t, coordinates |-> NoCoords, packageName |-> pkg, deviceId |-> dev]

NoBody == [type |-> "none", coordinates |-> NoCoords, packageName |-> NoPkg, deviceId |-> NoId]

\* An HTTP request sent to the agent; tmo = NoTimeout when the fetch carries
\* no AbortSignal; dev is the deviceId of its body or query, body the
\* DeviceAction posted to /action.
Req(route, verb, tmo, dev) ==
  [route |-> route, verb |-> verb, tmo |-> tmo, dev |-> dev, body |-> NoBody]
ActionReq(a, tmo) ==
  [route |-> "/action", verb |-> "POST", tmo |-> tmo, dev |-> a.deviceId, body |-> a]

\* ------------------------------------------------------ address resolution
ActiveRows(c) == {i \in 1..Len(c) : c[i].active}

\* select server_url where is_active order by last_updated desc limit 1;
\* rows are kept in insertion order and last_updated is set at insertion.
DbUrl(c) == IF ActiveRows(c) = {} THEN NoUrl ELSE c[Max(ActiveRows(c))].url

getAdbServerUrlEnvFirst(c, env) ==
  IF env # NoUrl THEN env
  ELSE IF DbUrl(c) # NoUrl THEN DbUrl(c)
  ELSE NoUrl

\* NoUrl stands for the Error('ADB server URL not found...') being thrown.
getAdbServerUrl(c, env) ==
  IF DbUrl(c) # NoUrl THEN DbUrl(c)
  ELSE IF env # NoUrl THEN env
  ELSE NoUrl

ErrNoUrl == "ADB server URL not found"

\* ----------------------------------------------------------- update-adb-url
\* The adb_server_config table as the migration leaves it: one active
\* placeholder row.
Migrated == <<[url |-> "u0", active |-> TRUE]>>

Updaters == {"agent", "manual"}
IdleUpdate == [pc |-> "idle", url |-> NoUrl, ret |-> "none"]

\* update ... set is_active = false where is_active = true
Deactivated(c) == [i \in 1..Len(c) |-> [c[i] EXCEPT !.active = FALSE]]

\* First, mark all existing configs as inactive.
UpdDeactivate(u, url) ==
  /\ upd[u].pc = "idle"
  /\ Len(cfg) + Cardinality({w \in Updaters : upd[w].pc = "insert"}) < MaxRows
  /\ cfg' = Deactivated(cfg)
  /\ upd' = [upd EXCEPT ![u] = [pc |-> "insert", url |-> url, ret |-> "none"]]
  /\ UNCHANGED <<conn, envUrl, visionKey, devices, sessions, actions, loops, resp>>

\* Then insert the new active URL; a failed insert is answered with
\* {success: false}.
UpdInsert(u, ok) ==
  /\ upd[u].pc = "insert"
  /\ cfg' = IF ok THEN Append(cfg, [url |-> upd[u].url, active |-> TRUE]) ELSE cfg
  /\ upd' = [upd EXCEPT ![u] = [@ EXCEPT !.pc = "idle", !.ret = IF ok THEN "true" ELSE "false"]]
  /\ UNCHANGED <<conn, envUrl, visionKey, devices, sessions, actions, loops, resp>>

\* ------------------------------------------------------- the agent's side
\* What the agent does with one request is drawn per request:
\*   up      it handles the request
\*   fail    it handles the request and the adb command fails
\*   missing the tunnel answers 404/405 for this verb and route
\*   garbled the tunnel answers 200 with a body that is not JSON
\*   odd     the answer is 200 with a JSON body of another shape: no
\*           success, screenshot, devices or apps field
\*   down    the connection fails
\*   silent  the connection is accepted and never answered
Moods == {"up", "fail", "missing", "garbled", "odd", "down", "silent"}

\* POST /action: validation of the body, before any adb command is built.
Malformed(a) ==
  \/ a.type = "tap" /\ ~(a.coordinates.has /\ a.coordinates.num)
  \/ a.type \in {"open_app", "close_app"} /\ a.packageName = NoPkg
  \/ a.type \notin {"tap", "swipe", "open_app", "close_app", "screenshot"}

\* The agent's answer to POST /action.
AgentAction(a, mood) ==
  CASE mood = "up"      -> IF Malformed(a) THEN "400" ELSE "200"
    [] mood = "fail"    -> IF Malformed(a) THEN "400" ELSE "500"
    [] mood = "missing" -> "404"
    [] OTHER            -> mood

\* The agent's answer to POST or GET /screenshot.
AgentScreenshot(mood) ==
  CASE mood = "up"      -> "200"
    [] mood = "fail"    -> "500"
    [] mood = "missing" -> "404"
    [] OTHER            -> mood

\* The agent's answer to GET /health: no adb command is involved.
AgentHealth(mood) ==
  CASE mood \in {"up", "fail"} -> "200"
    [] mood = "missing"        -> "404"
    [] OTHER                   -> mood

\* The agent's answer to GET /devices; the list is carried separately.
AgentDevices(mood) ==
  CASE mood = "up"      -> "200"
    [] mood = "fail"    -> "500"
    [] mood = "missing" -> "404"
    [] OTHER            -> mood

\* Lists the agent may enumerate (adb devices -l): id and sub-state.
Attached(id, state) == [id |-> id, status |-> state]
DeviceLists ==
  {<<>>,
   <<Attached("hA", "device")>>,
   <<Attached("hA", "unauthorized")>>,
   <<Attached("hB", "device"), Attached("hA", "offline")>>}

\* What a fetch with the given timeout makes of the agent's answer: a status,
\* "garbled", "odd", "throw" (network error or timeout) or "hang" (never
\* returns).
Fetch(answer, tmo) ==
  CASE answer = "down"   -> "throw"
    [] answer = "silent" -> IF tmo > 0 THEN "throw" ELSE "hang"
    [] OTHER             -> answer

\* response.ok, and response.ok with a body that response.json() parses.
Ok(r) == r \in {"200", "garbled", "odd"}
Parses(r) == r \in {"200", "odd"}

\* ------------------------------------------------------------- the gateway
\* takeRealScreenshot: POST /screenshot, and GET /screenshot when the POST
\* answers with a non-OK status. m1, m2: what the agent does with each.
takeRealScreenshot(dev, m1, m2) ==
  LET post == Req("/screenshot", "POST", ScreenshotTimeoutMs, dev)
      get  == Req("/screenshot", "GET", ScreenshotTimeoutMs, dev)
      r1   == Fetch(AgentScreenshot(m1), ScreenshotTimeoutMs)
      r2   == Fetch(AgentScreenshot(m2), ScreenshotTimeoutMs)
  IN  CASE r1 = "200"                 -> [shot |-> TRUE, reqs |-> <<post>>]
        [] r1 \in {"garbled", "odd", "throw"} -> [shot |-> FALSE, reqs |-> <<post>>]
        [] OTHER -> [shot |-> (r2 = "200"), reqs |-> <<post, get>>]

\* executeRealAction: one POST /action; success = result.success !== false
\* on an OK answer, false on a non-OK answer or on any exception.
executeRealAction(a, mood) ==
  LET r == Fetch(AgentAction(a, mood), ActionTimeoutMs)
  IN  [success |-> Parses(r),
       reqs |-> <<ActionReq(a, ActionTimeoutMs)>>,
       answer |-> r]

\* -------------------------------------------------------- deciding a move
\* Facts about the (lower-cased) game names and package names in use.
Includes(str, word) ==
  \/ str = "Tile Park" /\ word = "tile"
  \/ str = "com.funvent.tilepark" /\ word \in {"tile", "tilepark"}
  \/ str = "8 Ball Pool" /\ word = "pool"
  \/ str = "com.miniclip.eightballpool" /\ word = "pool"

\* tilePositions[k], k = 0..15: a 4 x 4 grid of tile centres.
TileColumns == 4
TileX0 == 200
TileDX == 90
TileY0 == 450
TileDY == 80
tilePositions(k) == Coords(TileX0 + TileDX * (k % TileColumns), TileY0 + TileDY * (k \div TileColumns))

PoolX0 == 300
PoolY0 == 640

\* analyzeScreenHeuristic: r1, r2 are the values of Math.floor(Math.random()*k).
analyzeScreenHeuristic(gameName, r1, r2) ==
  IF Includes(gameName, "tile") \/ Includes(gameName, "match") \/ Includes(gameName, "puzzle")
  THEN [action |-> Tap(tilePositions(r1), NoId), by |-> "heuristic"]
  ELSE IF Includes(gameName, "pool") \/ Includes(gameName, "billiard")
  THEN [action |-> Tap(Coords(PoolX0 + r1, PoolY0 + r2), NoId), by |-> "heuristic"]
  ELSE [action |-> Tap(Coords(CenterX, CenterY), NoId), by |-> "heuristic"]

\* The screen the backend is told about: 720x1280 pixels.
ScreenWidth == 720
ScreenHeight == 1280

\* A JSON value found at action.x or action.y of the backend's answer:
\* a number (in tenths), a non-numeric string, or nothing.
JsNum(tenths) == [t |-> "num", v |-> tenths]
JsStr == [t |-> "str", v |-> 0]
JsNone == [t |-> "none", v |-> 0]
Truthy(j) == j.t = "str" \/ (j.t = "num" /\ j.v # 0)
\* Math.round of a number given in tenths (halves round up).
Round(tenths) == (tenths + 5) \div 10
RoundXY(x, y) ==
  IF x.t = "num" /\ y.t = "num" THEN Coords(Round(x.v), Round(y.v)) ELSE NaNCoords

\* What the vision backend does with one call.
\*   throw   the connection fails          timeout  no answer within 15 s
\*   nonok   a non-OK status               notext   no JSON object in the text
\*   badjson braces that do not parse      parsed   a JSON object with x and y
VisionFailures == {"throw", "timeout", "nonok", "notext", "badjson"}
Vision(kind, x, y) == [kind |-> kind, x |-> x, y |-> y]
VisionAnswers ==
  {Vision(k, JsNone, JsNone) : k \in VisionFailures} \cup
  {Vision("parsed", JsNum(3004), JsNum(4996)),
   Vision("parsed", JsNum(0), JsNum(5000)),
   Vision("parsed", JsNum(-500), JsNum(20000)),
   Vision("parsed", JsStr, JsStr),
   Vision("parsed", JsNone, JsNone)}

analyzeScreenWithGeminiNoFallback(key, v, gameName, r1, r2) ==
  IF ~key THEN analyzeScreenHeuristic(gameName, r1, r2) @@ [called |-> FALSE]
  ELSE [action |-> Tap(RoundXY(v.x, v.y), NoId), by |-> "vision", called |-> TRUE]

\* analyzeScreenWithGemini: without a key the backend is not called.
analyzeScreenWithGemini(key, v, gameName, r1, r2) ==
  IF ~key THEN analyzeScreenHeuristic(gameName, r1, r2) @@ [called |-> FALSE]
  ELSE IF v.kind = "parsed" /\ Truthy(v.x) /\ Truthy(v.y)
  THEN [action |-> Tap(RoundXY(v.x, v.y), NoId), by |-> "vision", called |-> TRUE]
  ELSE analyzeScreenHeuristic(gameName, r1, r2) @@ [called |-> TRUE]

\* runBotLoop, step 2: the backend is used for Tile Park only.
UsesVision(game) == Includes(game.name, "tile") \/ Includes(game.pkg, "tilepark")

Decide(game, key, v, r1, r2) ==
  IF UsesVision(game)
  THEN analyzeScreenWithGemini(key, v, game.name, r1, r2)
  ELSE analyzeScreenHeuristic(game.name, r1, r2) @@ [called |-> FALSE]

\* ------------------------------------------------------------ the records
Device(name, hw, status) == [name |-> name, hw |-> hw, status |-> status]
\* updated_at names the write that stamped it last: the insert of
\* startBotSession ("start"), stopBotSession ("stop") or runBotLoop ("run").
Session(dev, game, status) ==
  [dev |-> dev, game |-> game, status |-> status, actions_performed |-> 0,
   updated_at |-> "start"]
ActionRowAlwaysSuccess(sid, a, success) ==
  [session_id |-> sid, action_type |-> a.type, coordinates |-> a.coordinates, success |-> TRUE]

ActionRow(sid, a, success) ==
  [session_id |-> sid, action_type |-> a.type, coordinates |-> a.coordinates, success |-> success]

\* A response of the orchestrator. success is "true", "false", "absent" (the
\* body carries no success field) or "pending" (the handler has not
\* returned); reqs are the agent requests the call made; device is the
\* devices row the call resolved (named in the body), launched the
\* launch-outcome flag, status what check_device_status reports, action the
\* DeviceAction an execute_action call was given, simulated whether the body
\* carries a simulated result or a placeholder image, answer what the fetch
\* of POST /action came to in execute_action and execute_tap and that of the
\* status query in check_device_status, seen the device list the status
\* query of the call obtained from the agent, stamped the columns of the
\* devices row the call has set, given the device id a connect_device call
\* was given and listed the list its first GET /devices obtained.
Response(op, success, error, reqs) ==
  [op |-> op, success |-> success, error |-> error, reqs |-> reqs,
   device |-> NoId, launched |-> FALSE, status |-> "none", action |-> NoBody,
   simulated |-> FALSE, answer |-> "none", seen |-> <<>>, stamped |-> {},
   given |-> NoId, listed |-> <<>>, url |-> NoUrl, packages |-> <<>>, games |-> <<>>,
   posted |-> NoBody, screen |-> <<>>, command |-> <<>>]
NoResponse == Response("none", "absent", "", <<>>)
\* What the serve handler's catch makes of an exception, and any other body
\* that is {error} alone: no success field.
Thrown(op, error, reqs) == Response(op, "absent", error, reqs)

FindDeviceHardwareFirst(devs, id) ==
  IF \E d \in DOMAIN devs : devs[d].hw = id
  THEN CHOOSE d \in DOMAIN devs : devs[d].hw = id
  ELSE IF id \in DOMAIN devs THEN id ELSE NoId

\* Lookup by durable id first, then by hardware id (startBotSession,
\* executeTapAction). The result is a durable id or NoId.
FindDevice(devs, id) ==
  IF id \in DOMAIN devs THEN id
  ELSE IF \E d \in DOMAIN devs : devs[d].hw = id
  THEN CHOOSE d \in DOMAIN devs : devs[d].hw = id
  ELSE NoId

\* ----------------------------------------------------------- run_bot_loop
\* One invocation. action, by, vision, success, answer (what the fetch of
\* POST /action came to) are the locals of the current iteration; nReq, nShot, nAct, nVis count what the invocation has done
\* (agent requests, screenshots captured, actions sent, backend calls);
\* read is the session status it read, last the requests of its last step.
IdleLoop ==
  [pc |-> "idle", sid |-> 0, dev |-> NoId, n |-> 0, i |-> 0,
   actionsPerformed |-> 0, base |-> 0, read |-> "none",
   action |-> Tap(NoCoords, NoId), by |-> "none", vision |-> "none",
   success |-> FALSE, answer |-> "none", results |-> 0,
   last |-> <<>>, nReq |-> 0, nShot |-> 0, nAct |-> 0, nVis |-> 0, wrote |-> FALSE,
   ret |-> NoResponse]

InFlight == {"shot", "decide", "act", "log", "write"}

\* serve handler: payload.iterations || 1
Iterations(n) == IF n = 0 THEN 1 ELSE n

LoopContinuesOffByOne(i, n) == i <= n

\* for (let i = 0; i < iterations; i++)
LoopContinues(i, n) == i < n

NextPc(i, n) == IF LoopContinues(i, n) THEN "shot" ELSE "write"

RunnableUnlessPaused(status) == status # "paused"

\* if (session.status !== 'running') return { success: false, ... }
Runnable(status) == status = "running"

\* Rows that the invocations in flight may still write.
Outstanding == 
  LET left(p) == IF loops[p].pc \in InFlight THEN loops[p].n - loops[p].results ELSE 0
  IN  left(1) + left(2)

Failed(p, sid, read, error) ==
  loops' = [loops EXCEPT ![p] =
    [IdleLoop EXCEPT !.sid = sid, !.read = read,
                     !.ret = Response("run_bot_loop", "false", error, <<>>)]]

RunBegin(p, sid, hw, n) ==
  /\ loops[p].pc = "idle"
  /\ Len(actions) + Outstanding + Iterations(n) <= MaxActions
  /\ UNCHANGED <<conn, upd, cfg, envUrl, visionKey, devices, sessions, actions, resp>>
  /\ IF sid \notin 1..Len(sessions)
     THEN Failed(p, sid, "none", "Session not found")
     ELSE LET s   == sessions[sid]
              url == getAdbServerUrl(cfg, envUrl)
          IN  IF ~Runnable(s.status)
              THEN Failed(p, sid, s.status, "Session is not running")
              ELSE IF devices[s.dev].status # "online"
              THEN Failed(p, sid, s.status, "Device is offline")
              ELSE IF url = NoUrl
              THEN Failed(p, sid, s.status, ErrNoUrl)
              ELSE loops' = [loops EXCEPT ![p] =
                     [IdleLoop EXCEPT
                        !.pc = NextPc(0, Iterations(n)), !.sid = sid, !.read = s.status,
                        !.dev = IF hw # NoId THEN hw ELSE devices[s.dev].hw,
                        !.n = Iterations(n),
                        !.actionsPerformed = s.actions_performed,
                        !.base = s.actions_performed]]

RunShotBreaksOnFailure(p, m1, m2) ==
  /\ loops[p].pc = "shot"
  /\ LET l == loops[p]
         r == takeRealScreenshot(l.dev, m1, m2)
     IN  loops' = [loops EXCEPT ![p] =
           [l EXCEPT !.last = r.reqs,
                     !.nReq = l.nReq + Len(r.reqs),
                     !.nShot = l.nShot + (IF r.shot THEN 1 ELSE 0),
                     !.i = IF r.shot THEN l.i ELSE l.i + 1,
                     !.pc = IF r.shot THEN "decide" ELSE "write"]]
  /\ UNCHANGED <<conn, upd, cfg, envUrl, visionKey, devices, sessions, actions, resp>>

\* 1. Take screenshot; without one the iteration is skipped (continue).
RunShot(p, m1, m2) ==
  /\ loops[p].pc = "shot"
  /\ LET l == loops[p]
         r == takeRealScreenshot(l.dev, m1, m2)
     IN  loops' = [loops EXCEPT ![p] =
           [l EXCEPT !.last = r.reqs,
                     !.nReq = l.nReq + Len(r.reqs),
                     !.nShot = l.nShot + (IF r.shot THEN 1 ELSE 0),
                     !.i = IF r.shot THEN l.i ELSE l.i + 1,
                     !.pc = IF r.shot THEN "decide" ELSE NextPc(l.i + 1, l.n)]]
  /\ UNCHANGED <<conn, upd, cfg, envUrl, visionKey, devices, sessions, actions, resp>>

\* 2. Analyze the screenshot.
RunDecide(p, v, r1, r2) ==
  /\ loops[p].pc = "decide"
  /\ LET l == loops[p]
         a == Decide(sessions[l.sid].game, visionKey, v, r1, r2)
     IN  loops' = [loops EXCEPT ![p] =
           [l EXCEPT !.action = [a.action EXCEPT !.deviceId = l.dev],
                     !.by = a.by,
                     !.vision = IF a.called THEN v.kind ELSE "none",
                     !.nVis = l.nVis + (IF a.called THEN 1 ELSE 0),
                     !.last = <<>>,
                     !.pc = "act"]]
  /\ UNCHANGED <<conn, upd, cfg, envUrl, visionKey, devices, sessions, actions, resp>>

\* A step 3 that sends the action and goes on to the next iteration without
\* waiting for the row to be written.
RunActMovesOn(p, mood) ==
  /\ loops[p].pc = "act"
  /\ LET l == loops[p]
         r == executeRealAction(l.action, mood)
     IN  loops' = [loops EXCEPT ![p] =
           [l EXCEPT !.last = r.reqs,
                     !.nReq = l.nReq + Len(r.reqs),
                     !.nAct = l.nAct + 1,
                     !.success = r.success,
                     !.answer = r.answer,
                     !.actionsPerformed = l.actionsPerformed + 1,
                     !.i = l.i + 1,
                     !.pc = NextPc(l.i + 1, l.n)]]
  /\ UNCHANGED <<conn, upd, cfg, envUrl, visionKey, devices, sessions, actions, resp>>

\* 3. Execute the recommended action; actionsPerformed++.
RunAct(p, mood) ==
  /\ loops[p].pc = "act"
  /\ LET l == loops[p]
         r == executeRealAction(l.action, mood)
     IN  loops' = [loops EXCEPT ![p] =
           [l EXCEPT !.last = r.reqs,
                     !.nReq = l.nReq + Len(r.reqs),
                     !.nAct = l.nAct + 1,
                     !.success = r.success,
                     !.answer = r.answer,
                     !.actionsPerformed = l.actionsPerformed + 1,
                     !.pc = "log"]]
  /\ UNCHANGED <<conn, upd, cfg, envUrl, visionKey, devices, sessions, actions, resp>>

\* Log the action (insert into bot_actions), results.push; the iteration's
\* locals go out of scope.
RunLog(p) ==
  /\ loops[p].pc = "log"
  /\ LET l == loops[p]
     IN  /\ actions' = Append(actions, ActionRow(l.sid, l.action, l.success))
         /\ loops' = [loops EXCEPT ![p] =
              [l EXCEPT !.results = l.results + 1,
                        !.i = l.i + 1,
                        !.action = IdleLoop.action, !.by = "none", !.vision = "none",
                        !.success = FALSE, !.answer = "none", !.last = <<>>,
                        !.pc = NextPc(l.i + 1, l.n)]]
  /\ UNCHANGED <<conn, upd, cfg, envUrl, visionKey, devices, sessions, resp>>

\* A final update that adds the invocation's own actions to the counter as
\* it is stored at that moment.
RunWriteIncrements(p) ==
  /\ loops[p].pc = "write"
  /\ LET l == loops[p]
     IN  /\ sessions' = [sessions EXCEPT
                           ![l.sid].actions_performed = @ + (l.actionsPerformed - l.base),
                           ![l.sid].updated_at = "run"]
         /\ loops' = [loops EXCEPT ![p] =
              [l EXCEPT !.pc = "idle", !.wrote = TRUE, !.last = <<>>,
                        !.ret = Response("run_bot_loop", "true", "", <<>>)]]
  /\ UNCHANGED <<conn, upd, cfg, envUrl, visionKey, devices, actions, resp>>

RunWriteRestoresStatus(p) ==
  /\ loops[p].pc = "write"
  /\ LET l == loops[p]
     IN  /\ sessions' = [sessions EXCEPT ![l.sid].actions_performed = l.actionsPerformed,
                                         ![l.sid].updated_at = "run",
                                         ![l.sid].status = l.read]
         /\ loops' = [loops EXCEPT ![p] =
              [l EXCEPT !.pc = "idle", !.wrote = TRUE, !.last = <<>>,
                        !.ret = Response("run_bot_loop", "true", "", <<>>)]]
  /\ UNCHANGED <<conn, upd, cfg, envUrl, visionKey, devices, actions, resp>>

\* Update session stats (actions_performed and updated_at only) and answer.
RunWrite(p) ==
  /\ loops[p].pc = "write"
  /\ LET l == loops[p]
     IN  /\ sessions' = [sessions EXCEPT ![l.sid].actions_performed = l.actionsPerformed,
                                         ![l.sid].updated_at = "run"]
         /\ loops' = [loops EXCEPT ![p] =
              [l EXCEPT !.pc = "idle", !.wrote = TRUE, !.last = <<>>,
                        !.ret = Response("run_bot_loop", "true", "", <<>>)]]
  /\ UNCHANGED <<conn, upd, cfg, envUrl, visionKey, devices, actions, resp>>

RunStep(p) ==
  \/ \E m1, m2 \in Moods : RunShot(p, m1, m2)
  \/ \E v \in VisionAnswers, r1, r2 \in 0..MaxRand : RunDecide(p, v, r1, r2)
  \/ \E m \in Moods : RunAct(p, m)
  \/ RunLog(p)
  \/ RunWrite(p)

\* ------------------------------------------------------ session lifecycle
launchGameOnDeviceTrustsHealth(url, dev, pkg, m1, m2) ==
  LET health == Req("/health", "GET", HealthTimeoutMs, NoId)
      open   == ActionReq(AppAction("open_app", pkg, dev), LaunchTimeoutMs)
      h      == Fetch(AgentHealth(m1), HealthTimeoutMs)
      r      == Fetch(AgentAction(open.body, m2), LaunchTimeoutMs)
  IN  IF url = NoUrl THEN [success |-> FALSE, reqs |-> <<>>, answer |-> "none"]
      ELSE IF ~Ok(h) THEN [success |-> FALSE, reqs |-> <<health>>, answer |-> "none"]
      ELSE [success |-> TRUE, reqs |-> <<health, open>>, answer |-> r]

\* launchGameOnDevice: GET /health, then POST /action {open_app}; every
\* failure becomes {success: false}. answer is what the fetch of the POST
\* came to.
launchGameOnDevice(url, dev, pkg, m1, m2) ==
  LET health == Req("/health", "GET", HealthTimeoutMs, NoId)
      open   == ActionReq(AppAction("open_app", pkg, dev), LaunchTimeoutMs)
      h      == Fetch(AgentHealth(m1), HealthTimeoutMs)
      r      == Fetch(AgentAction(open.body, m2), LaunchTimeoutMs)
  IN  IF url = NoUrl THEN [success |-> FALSE, reqs |-> <<>>, answer |-> "none"]
      ELSE IF ~Ok(h) THEN [success |-> FALSE, reqs |-> <<health>>, answer |-> "none"]
      ELSE [success |-> Parses(r), reqs |-> <<health, open>>, answer |-> r]

DeviceAvailableAnyStatus(status) == TRUE

\* Whether startBotSession goes on to create the session.
DeviceAvailable(status) == status = "online"

\* start_bot_session. launched is the separate launch-outcome flag, given the
\* id the caller passed.
StartBotSession(id, game, m1, m2) ==
  LET d == FindDevice(devices, id)
  IN  /\ UNCHANGED <<conn, upd, cfg, envUrl, visionKey, devices, actions, loops>>
      /\ IF d = NoId
         THEN /\ resp' = [Thrown("start_bot_session", "Device not found", <<>>)
                            EXCEPT !.given = id]
              /\ UNCHANGED sessions
         ELSE IF ~DeviceAvailable(devices[d].status)
         THEN /\ resp' = [Thrown("start_bot_session", "Device is " \o devices[d].status, <<>>)
                            EXCEPT !.device = d, !.given = id]
              /\ UNCHANGED sessions
         ELSE /\ Len(sessions) < MaxSessions
              /\ sessions' = Append(sessions, Session(d, game, "running"))
              /\ LET l == launchGameOnDevice(getAdbServerUrl(cfg, envUrl), devices[d].hw, game.pkg, m1, m2)
                 IN  resp' = [Response("start_bot_session", "true", "", l.reqs)
                               EXCEPT !.launched = l.success, !.device = d, !.given = id,
                                      !.answer = l.answer]

StopBotSessionOnce(sid) ==
  /\ UNCHANGED <<conn, upd, cfg, envUrl, visionKey, devices, actions, loops>>
  /\ IF sid \in 1..Len(sessions) /\ sessions[sid].status # "stopped"
     THEN /\ sessions' = [sessions EXCEPT ![sid].status = "stopped", ![sid].updated_at = "stop"]
          /\ resp' = Response("stop_bot_session", "true", "", <<>>)
     ELSE /\ UNCHANGED sessions
          /\ resp' = Thrown("stop_bot_session", "no rows", <<>>)

\* stop_bot_session: update ... set status = 'stopped' where id = sessionId.
StopBotSession(sid) ==
  /\ UNCHANGED <<conn, upd, cfg, envUrl, visionKey, devices, actions, loops>>
  /\ IF sid \in 1..Len(sessions)
     THEN /\ sessions' = [sessions EXCEPT ![sid].status = "stopped", ![sid].updated_at = "stop"]
          /\ resp' = Response("stop_bot_session", "true", "", <<>>)
     ELSE /\ UNCHANGED sessions
          /\ resp' = Thrown("stop_bot_session", "no rows", <<>>)

\* The status the dashboard shows for a session (loadGames).
Shown(status) ==
  IF status = "running" THEN "active" ELSE IF status = "paused" THEN "paused" ELSE "stopped"

\* BotCard: the Pause button is offered when the game shows as active,
\* Play Now when it does not.
Offered(shown, newStatus) ==
  \/ newStatus = "paused" /\ shown = "active"
  \/ newStatus = "active" /\ shown # "active"

\* A status change that also stamps the row's modification time.
handleGameStatusChangeStampsTime(sid, newStatus) ==
  /\ sid \in 1..Len(sessions)
  /\ newStatus \in {"paused", "active"}
  /\ Offered(Shown(sessions[sid].status), newStatus)
  /\ sessions' = [sessions EXCEPT ![sid].status = IF newStatus = "paused" THEN "paused" ELSE "running",
                                   ![sid].updated_at = "status"]
  /\ UNCHANGED <<conn, upd, cfg, envUrl, visionKey, devices, actions, loops, resp>>

\* handleGameStatusChange for a game that has a session, newStatus 'paused'
\* or 'active': the dashboard writes the status itself.
handleGameStatusChange(sid, newStatus) ==
  /\ sid \in 1..Len(sessions)
  /\ newStatus \in {"paused", "active"}
  /\ Offered(Shown(sessions[sid].status), newStatus)
  /\ sessions' = [sessions EXCEPT ![sid].status = IF newStatus = "paused" THEN "paused" ELSE "running"]
  /\ UNCHANGED <<conn, upd, cfg, envUrl, visionKey, devices, actions, loops, resp>>

\* ----------------------------------------------------------- device status
IsConnectedAnySubState(list, hw) == \E k \in 1..Len(list) : list[k].id = hw

\* connectedDevices.some(d => d.id === deviceId && d.status === 'device')
IsConnected(list, hw) ==
  \E k \in 1..Len(list) : list[k].id = hw /\ list[k].status = "device"

checkADBConnectionTrustsOnError(url, hw, mood, list) ==
  LET r == Fetch(AgentDevices(mood), DevicesTimeoutMs)
  IN  [connected |-> url # NoUrl /\ (r = "throw" \/ (r = "200" /\ IsConnected(list, hw))),
       reqs |-> IF url = NoUrl THEN <<>> ELSE <<Req("/devices", "GET", DevicesTimeoutMs, NoId)>>,
       seen |-> IF url # NoUrl /\ r = "200" THEN list ELSE <<>>,
       answer |-> IF url = NoUrl THEN "none" ELSE r]

\* checkADBConnection: GET /devices, then an entry with the id in the ready
\* sub-state. Every failure, the unresolvable address included, is false.
\* seen is the list the agent answered with, empty when none was obtained.
checkADBConnection(url, hw, mood, list) ==
  LET r == Fetch(AgentDevices(mood), DevicesTimeoutMs)
  IN  IF url = NoUrl
      THEN [connected |-> FALSE, reqs |-> <<>>, seen |-> <<>>, answer |-> "none"]
      ELSE [connected |-> r = "200" /\ IsConnected(list, hw),
            reqs |-> <<Req("/devices", "GET", DevicesTimeoutMs, NoId)>>,
            seen |-> IF r = "200" THEN list ELSE <<>>,
            answer |-> r]

\* check_device_status: the row is looked up by durable id only. given is
\* the id the caller passed, url the address checkADBConnection resolved.
CheckDeviceStatus(id, mood, list) ==
  /\ UNCHANGED <<conn, upd, cfg, envUrl, visionKey, sessions, actions, loops>>
  /\ IF id \notin DOMAIN devices
     THEN /\ resp' = [Response("check_device_status", "false", "Device not found", <<>>)
                            EXCEPT !.given = id]
          /\ UNCHANGED devices
     ELSE LET c  == checkADBConnection(getAdbServerUrl(cfg, envUrl), devices[id].hw, mood, list)
              st == IF c.connected THEN "online" ELSE "offline"
          IN  /\ devices' = [devices EXCEPT ![id].status = st]
              /\ resp' = [Response("check_device_status", "true", "", c.reqs)
                            EXCEPT !.status = st, !.device = id, !.seen = c.seen,
                                   !.answer = c.answer, !.given = id,
                                   !.url = getAdbServerUrl(cfg, envUrl),
                                   !.stamped = {"status", "last_seen", "updated_at"}]

\* update_device: only name, adb_host and adb_port may be updated, on the
\* row with the durable id; every refusal is answered with {error} alone.
\* field is the field the caller updates ("none": no allowed field); the
\* model keeps no adb_host.
UpdateDevice(id, field) ==
  /\ field \in {"none", "adb_host"}
  /\ UNCHANGED <<conn, upd, cfg, envUrl, visionKey, devices, sessions, actions, loops>>
  /\ resp' = IF id = NoId THEN Thrown("update_device", "Device ID is required", <<>>)
             ELSE IF field = "none" THEN Thrown("update_device", "No valid fields to update", <<>>)
             ELSE IF id \notin DOMAIN devices THEN Thrown("update_device", "no rows", <<>>)
             ELSE [Response("update_device", "true", "", <<>>) EXCEPT !.device = id]

\* serve handler, default branch: status 400, {error: 'Unknown action'}.
UnknownAction ==
  /\ resp' = Thrown("unknown", "Unknown action", <<>>)
  /\ UNCHANGED <<conn, upd, cfg, envUrl, visionKey, devices, sessions, actions, loops>>

\* ------------------------------------------------ execute_action, screenshot
\* simulateDeviceAction: without an address a simulated success; otherwise
\* one POST /action carrying the action as given, with no AbortSignal. The
\* answer is the agent's body on an OK status, {success: false} otherwise.
simulateDeviceAction(url, a, mood) ==
  LET r == Fetch(AgentAction(a, mood), NoTimeout)
  IN  IF url = NoUrl
      THEN [success |-> "true", simulated |-> TRUE, reqs |-> <<>>, answer |-> "none"]
      ELSE [success |-> CASE r = "hang" -> "pending"
                          [] r = "200"  -> "true"
                          [] r = "odd"  -> "absent"
                          [] OTHER      -> "false",
            simulated |-> FALSE,
            reqs |-> <<ActionReq(a, NoTimeout)>>,
            answer |-> r]

\* execute_action: the action goes to simulateDeviceAction as received; the
\* bot_actions insert follows whatever the outcome, and is refused by the
\* store when the session id names no session.
ExecuteDeviceAction(sid, a, mood) ==
  LET r == simulateDeviceAction(getAdbServerUrl(cfg, envUrl), a, mood)
  IN  /\ Len(actions) + Outstanding < MaxActions
      /\ actions' = IF r.success # "pending" /\ sid \in 1..Len(sessions)
                    THEN Append(actions, ActionRow(sid, a, r.success = "true"))
                    ELSE actions
      /\ resp' = [Response("execute_action", r.success, "", r.reqs)
                    EXCEPT !.action = a, !.simulated = r.simulated, !.answer = r.answer]
      /\ UNCHANGED <<conn, upd, cfg, envUrl, visionKey, devices, sessions, loops>>

\* simulateScreenshot: without an address a placeholder image; otherwise one
\* POST /screenshot with no AbortSignal. shot: an image came back.
simulateScreenshot(url, dev, mood) ==
  LET r == Fetch(AgentScreenshot(mood), NoTimeout)
  IN  IF url = NoUrl THEN [returns |-> TRUE, shot |-> FALSE, simulated |-> TRUE, reqs |-> <<>>]
      ELSE [returns |-> r # "hang", shot |-> r = "200", simulated |-> FALSE,
            reqs |-> <<Req("/screenshot", "POST", NoTimeout, dev)>>]

\* get_device_screenshot: {success: true, screenshot} whatever came back.
GetDeviceScreenshot(dev, mood) ==
  LET r == simulateScreenshot(getAdbServerUrl(cfg, envUrl), dev, mood)
  IN  /\ resp' = [Response("get_device_screenshot",
                           IF r.returns THEN "true" ELSE "pending", "", r.reqs)
                    EXCEPT !.simulated = r.simulated]
      /\ UNCHANGED <<conn, upd, cfg, envUrl, visionKey, devices, sessions, actions, loops>>

\* execute_tap: the device by durable id, then by hardware id; it must be
\* online; one tap through executeRealAction. Every exception is answered
\* with {success: false, error}.
ExecuteTapAction(id, x, y, mood) ==
  LET d   == FindDevice(devices, id)
      url == getAdbServerUrl(cfg, envUrl)
      fail(error) == Response("execute_tap", "false", error, <<>>)
  IN  /\ UNCHANGED <<conn, upd, cfg, envUrl, visionKey, devices, sessions, actions, loops>>
      /\ IF d = NoId THEN resp' = fail("Device not found")
         ELSE IF devices[d].status # "online"
         THEN resp' = [fail("Device is offline") EXCEPT !.device = d]
         ELSE IF url = NoUrl THEN resp' = [fail(ErrNoUrl) EXCEPT !.device = d]
         ELSE LET a == Tap(Coords(x, y), devices[d].hw)
                  r == executeRealAction(a, mood)
              IN  resp' = [Response("execute_tap", IF r.success THEN "true" ELSE "false", "", r.reqs)
                             EXCEPT !.device = d, !.action = a, !.answer = r.answer]

\* ------------------------------------------------------- scan_device_games
\* The agent's answer to POST or GET /scan-apps.
AgentScan(mood) ==
  CASE mood = "up"      -> "200"
    [] mood = "fail"    -> "500"
    [] mood = "missing" -> "404"
    [] OTHER            -> mood

\* simulateGameScan: GET /health, GET /devices if that is not OK, then POST
\* /scan-apps and, on a 404 only, GET /scan-apps. ok = FALSE is a throw.
simulateGameScan(dev, m1, m2, m3, m4) ==
  LET health  == Req("/health", "GET", HealthTimeoutMs, NoId)
      list    == Req("/devices", "GET", HealthTimeoutMs, NoId)
      post    == Req("/scan-apps", "POST", ScanTimeoutMs, dev)
      get     == Req("/scan-apps", "GET", ScanTimeoutMs, dev)
      isOk(r) == Ok(r)
      h1      == Fetch(AgentHealth(m1), HealthTimeoutMs)
      h2      == Fetch(AgentDevices(m2), HealthTimeoutMs)
      r3      == Fetch(AgentScan(m3), ScanTimeoutMs)
      r4      == Fetch(AgentScan(m4), ScanTimeoutMs)
      probes  == IF isOk(h1) THEN <<health>> ELSE <<health, list>>
  IN  IF ~isOk(h1) /\ ~isOk(h2)
      THEN [ok |-> FALSE, error |-> "ADB server is offline", reqs |-> probes]
      ELSE IF r3 = "404"
      THEN [ok |-> Parses(r4), error |-> IF Parses(r4) THEN "" ELSE "Scan failed",
            reqs |-> probes \o <<post, get>>]
      ELSE [ok |-> Parses(r3), error |-> IF Parses(r3) THEN "" ELSE "Scan failed",
            reqs |-> probes \o <<post>>]

\* scan_device_games: the address is resolved first, the row is looked up by
\* durable id, and every exception is answered with {success: false, error}.
ScanDeviceGames(id, m1, m2, m3, m4) ==
  /\ UNCHANGED <<conn, upd, cfg, envUrl, visionKey, devices, sessions, actions, loops>>
  /\ IF getAdbServerUrl(cfg, envUrl) = NoUrl
     THEN resp' = Response("scan_device_games", "false", ErrNoUrl, <<>>)
     ELSE IF id \notin DOMAIN devices
     THEN resp' = Response("scan_device_games", "false", "Device not found", <<>>)
     ELSE IF devices[id].status # "online"
     THEN resp' = [Response("scan_device_games", "false", "Device is " \o devices[id].status, <<>>)
                     EXCEPT !.device = id]
     ELSE LET r == simulateGameScan(devices[id].hw, m1, m2, m3, m4)
          IN  resp' = [Response("scan_device_games", IF r.ok THEN "true" ELSE "false", r.error, r.reqs)
                         EXCEPT !.device = id]

\* ----------------------------------------------------------- connect_device
\* The devices rows with a display name.
Named(devs, name) == {d \in DOMAIN devs : devs[d].name = name}

ConnectProbeKeepsCallerId(url, hw, m1, l1, m2, l2) ==
  LET r1 == Fetch(AgentDevices(m1), DevicesTimeoutMs)
      c  == checkADBConnection(url, hw, m2, l2)
  IN  [real |-> hw, connected |-> c.connected,
       reqs |-> <<Req("/devices", "GET", DevicesTimeoutMs, NoId)>> \o c.reqs,
       seen |-> c.seen, given |-> hw,
       listed |-> IF r1 = "200" THEN l1 ELSE <<>>]

\* connectDevice up to the store: GET /devices, whose first enumerated id
\* replaces the caller's; then checkADBConnection for that id. given is the
\* caller's id, listed the list the first request obtained (empty when it
\* obtained none).
ConnectProbe(url, hw, m1, l1, m2, l2) ==
  LET r1   == Fetch(AgentDevices(m1), DevicesTimeoutMs)
      real == IF r1 = "200" /\ Len(l1) > 0 THEN l1[1].id ELSE hw
      c    == checkADBConnection(url, real, m2, l2)
  IN  [real |-> real, connected |-> c.connected,
       reqs |-> <<Req("/devices", "GET", DevicesTimeoutMs, NoId)>> \o c.reqs,
       seen |-> c.seen, given |-> hw,
       listed |-> IF r1 = "200" THEN l1 ELSE <<>>]

NoProbe ==
  [real |-> NoId, connected |-> FALSE, reqs |-> <<>>, seen |-> <<>>, given |-> NoId,
   listed |-> <<>>]

\* select id from devices where name = ... (maybeSingle): the row, or none
\* when no row or several rows have the name.
Existing(devs, name) ==
  IF Cardinality(Named(devs, name)) = 1 THEN CHOOSE d \in Named(devs, name) : TRUE ELSE NoId

\* The row the write goes to: the existing one, or a new durable id.
Target(devs, existing) ==
  IF existing # NoId THEN existing ELSE CHOOSE d \in DurableIds : d \notin DOMAIN devs

\* A devices table without the constraint on device_id.
TakenIsNotChecked(devs, target, hw) == FALSE

\* devices.device_id is UNIQUE: the write is refused when another row has it.
Taken(devs, target, hw) == \E d \in DOMAIN devs : d # target /\ devs[d].hw = hw

\* The update or insert of connectDevice, and its answer.
Upserted(devs, existing, row) ==
  LET target == Target(devs, existing)
  IN  IF Taken(devs, target, row.hw) THEN devs
      ELSE [d \in DOMAIN devs \cup {target} |-> IF d = target THEN row ELSE devs[d]]

ConnectAnswer(devs, existing, row, p) ==
  LET target == Target(devs, existing)
  IN  IF Taken(devs, target, row.hw)
      THEN [Thrown("connect_device", "duplicate key", p.reqs)
              EXCEPT !.given = p.given, !.listed = p.listed]
      ELSE [Response("connect_device", "true", "", p.reqs)
              EXCEPT !.device = target, !.status = row.status, !.seen = p.seen,
                     !.given = p.given, !.listed = p.listed,
                     !.stamped = {"device_id", "status", "last_seen"}]

\* connect_device as one step: the address is resolved outside any try, so
\* its failure reaches the serve handler's catch; then the probe, the lookup
\* of the row with the display name, and the update or insert.
ConnectDevice(name, hw, m1, l1, m2, l2) ==
  LET url      == getAdbServerUrl(cfg, envUrl)
      p        == ConnectProbe(url, hw, m1, l1, m2, l2)
      row      == Device(name, p.real, IF p.connected THEN "online" ELSE "offline")
      existing == Existing(devices, name)
  IN  /\ UNCHANGED <<conn, upd, cfg, envUrl, visionKey, sessions, actions, loops>>
      /\ existing = NoId => DurableIds \ DOMAIN devices # {}
      /\ IF url = NoUrl
         THEN /\ resp' = Thrown("connect_device", ErrNoUrl, <<>>)
              /\ UNCHANGED devices
         ELSE /\ devices' = Upserted(devices, existing, row)
              /\ resp' = ConnectAnswer(devices, existing, row, p)

\* connect_device in the two steps other calls can come between: up to the
\* lookup of the row with the display name, then the update or insert.
Callers == {"a", "b"}
IdleConnect ==
  [pc |-> "idle", row |-> Device("", NoId, "offline"), existing |-> NoId,
   probe |-> NoProbe]

\* Rows that the connect_device calls in flight may still insert.
Inserting == Cardinality({c \in Callers : conn[c].pc = "write" /\ conn[c].existing = NoId})

ConnectRead(c, name, hw, m1, l1, m2, l2) ==
  LET url      == getAdbServerUrl(cfg, envUrl)
      p        == ConnectProbe(url, hw, m1, l1, m2, l2)
      row      == Device(name, p.real, IF p.connected THEN "online" ELSE "offline")
      existing == Existing(devices, name)
  IN  /\ conn[c].pc = "idle"
      /\ existing = NoId => Cardinality(DOMAIN devices) + Inserting < Cardinality(DurableIds)
      /\ UNCHANGED <<upd, cfg, envUrl, visionKey, devices, sessions, actions, loops>>
      /\ IF url = NoUrl
         THEN /\ resp' = Thrown("connect_device", ErrNoUrl, <<>>)
              /\ UNCHANGED conn
         ELSE /\ conn' = [conn EXCEPT ![c] =
                   [pc |-> "write", row |-> row, existing |-> existing, probe |-> p]]
              /\ UNCHANGED resp

ConnectWrite(c) ==
  /\ conn[c].pc = "write"
  /\ devices' = Upserted(devices, conn[c].existing, conn[c].row)
  /\ resp' = ConnectAnswer(devices, conn[c].existing, conn[c].row, conn[c].probe)
  /\ conn' = [conn EXCEPT ![c] = IdleConnect]
  /\ UNCHANGED <<upd, cfg, envUrl, visionKey, sessions, actions, loops>>

\* ---------------------------------------------------------- the classifier
\* Package names, prefixes and patterns are sequences of characters.
Lowers ==
  <<"a", "b", "c", "d", "e", "f", "g", "h", "i", "j", "k", "l", "m",
    "n", "o", "p", "q", "r", "s", "t", "u", "v", "w", "x", "y", "z">>
Uppers ==
  <<"A", "B", "C", "D", "E", "F", "G", "H", "I", "J", "K", "L", "M",
    "N", "O", "P", "Q", "R", "S", "T", "U", "V", "W", "X", "Y", "Z">>
IndexIn(seq, c) == IF \E i \in 1..Len(seq) : seq[i] = c THEN CHOOSE i \in 1..Len(seq) : seq[i] = c ELSE 0
IsUpper(c) == IndexIn(Uppers, c) > 0
LowerChar(c) == IF IsUpper(c) THEN Lowers[IndexIn(Uppers, c)] ELSE c
UpperChar(c) == IF IndexIn(Lowers, c) > 0 THEN Uppers[IndexIn(Lowers, c)] ELSE c
toLowerCase(s) == [i \in 1..Len(s) |-> LowerChar(s[i])]

\* String.prototype.startsWith, endsWith, includes.
startsWith(s, p) == Len(p) <= Len(s) /\ SubSeq(s, 1, Len(p)) = p
endsWith(s, p) == Len(p) <= Len(s) /\ SubSeq(s, Len(s) - Len(p) + 1, Len(s)) = p
includes(s, p) == \E i \in 0..(Len(s) - Len(p)) : SubSeq(s, i + 1, i + Len(p)) = p

\* A regular expression /text/i or /text$/i whose text is literal, and
\* RegExp.prototype.test.
Re(text, end) == [text |-> text, end |-> end]
test(re, s) ==
  IF re.end THEN endsWith(toLowerCase(s), re.text) ELSE includes(toLowerCase(s), re.text)

\* Known game package patterns and specific games.
KNOWN_GAME_PACKAGES ==
  {<<"c", "o", "m", ".", "k", "i", "n", "g", ".", "c", "a", "n", "d", "y", "c", "r", "u", "s", "h", "s", "a", "g", "a">>,
   <<"c", "o", "m", ".", "k", "i", "n", "g", ".", "c", "a", "n", "d", "y", "c", "r", "u", "s", "h", "s", "o", "d", "a", "s", "a", "g", "a">>,
   <<"c", "o", "m", ".", "k", "i", "n", "g", ".", "f", "a", "r", "m", "h", "e", "r", "o", "e", "s", "s", "a", "g", "a">>,
   <<"c", "o", "m", ".", "s", "u", "p", "e", "r", "c", "e", "l", "l", ".", "c", "l", "a", "s", "h", "o", "f", "c", "l", "a", "n", "s">>,
   <<"c", "o", "m", ".", "s", "u", "p", "e", "r", "c", "e", "l", "l", ".", "c", "l", "a", "s", "h", "r", "o", "y", "a", "l", "e">>,
   <<"c", "o", "m", ".", "s", "u", "p", "e", "r", "c", "e", "l", "l", ".", "b", "r", "a", "w", "l", "s", "t", "a", "r", "s">>,
   <<"c", "o", "m", ".", "r", "o", "v", "i", "o", ".", "a", "n", "g", "r", "y", "b", "i", "r", "d", "s">>,
   <<"c", "o", "m", ".", "i", "g", "g", ".", "c", "a", "s", "t", "l", "e", "c", "l", "a", "s", "h">>,
   <<"c", "o", "m", ".", "g", "a", "m", "e", "l", "o", "f", "t">>,
   <<"c", "o", "m", ".", "e", "a", ".", "g", "a", "m", "e">>,
   <<"c", "o", "m", ".", "z", "y", "n", "g", "a">>,
   <<"c", "o", "m", ".", "o", "u", "t", "f", "i", "t", "7">>,
   <<"c", "o", "m", ".", "h", "a", "l", "f", "b", "r", "i", "c", "k">>,
   <<"c", "o", "m", ".", "m", "o", "j", "a", "n", "g", ".", "m", "i", "n", "e", "c", "r", "a", "f", "t", "p", "e">>,
   <<"c", "o", "m", ".", "k", "i", "l", "o", "o", ".", "s", "u", "b", "w", "a", "y", "s", "u", "r", "f">>,
   <<"c", "o", "m", ".", "n", "e", "k", "k", "i">>,
   <<"c", "o", "m", ".", "f", "i", "n", "g", "e", "r", "s", "o", "f", "t", ".", "h", "i", "l", "l", "c", "l", "i", "m", "b">>,
   <<"c", "o", "m", ".", "d", "t", "s", ".", "f", "r", "e", "e", "f", "i", "r", "e", "t", "h">>,
   <<"c", "o", "m", ".", "t", "e", "n", "c", "e", "n", "t", ".", "i", "g">>,
   <<"c", "o", "m", ".", "p", "u", "b", "g">>,
   <<"c", "o", "m", ".", "a", "c", "t", "i", "v", "i", "s", "i", "o", "n", ".", "c", "a", "l", "l", "o", "f", "d", "u", "t", "y">>,
   <<"c", "o", "m", ".", "r", "o", "b", "l", "o", "x", ".", "c", "l", "i", "e", "n", "t">>,
   <<"c", "o", "m", ".", "f", "u", "n", "v", "e", "n", "t", ".", "t", "i", "l", "e", "p", "a", "r", "k">>}

\* Package name patterns that indicate games.
GAME_PATTERNS ==
  {Re(<<".", "g", "a", "m", "e", ".">>, FALSE),
   Re(<<"g", "a", "m", "e">>, TRUE),
   Re(<<"g", "a", "m", "e", "s", ".">>, FALSE),
   Re(<<".", "p", "l", "a", "y", ".">>, FALSE),
   Re(<<"p", "u", "z", "z", "l", "e">>, FALSE),
   Re(<<"a", "r", "c", "a", "d", "e">>, FALSE),
   Re(<<"a", "d", "v", "e", "n", "t", "u", "r", "e">>, FALSE),
   Re(<<"r", "a", "c", "i", "n", "g">>, FALSE),
   Re(<<"s", "h", "o", "o", "t", "e", "r">>, FALSE),
   Re(<<"r", "p", "g">>, FALSE),
   Re(<<"c", "a", "s", "i", "n", "o">>, FALSE),
   Re(<<"s", "l", "o", "t", "s">>, FALSE),
   Re(<<"c", "a", "n", "d", "y">>, FALSE),
   Re(<<"c", "r", "u", "s", "h">>, FALSE),
   Re(<<"c", "l", "a", "s", "h">>, FALSE),
   Re(<<"c", "r", "a", "f", "t">>, FALSE),
   Re(<<"n", "i", "n", "j", "a">>, FALSE),
   Re(<<"z", "o", "m", "b", "i", "e">>, FALSE),
   Re(<<"d", "r", "a", "g", "o", "n">>, FALSE),
   Re(<<"h", "e", "r", "o">>, FALSE),
   Re(<<"s", "a", "g", "a">>, FALSE),
   Re(<<"r", "u", "n">>, FALSE),
   Re(<<"j", "u", "m", "p">>, FALSE),
   Re(<<"t", "i", "l", "e", "p", "a", "r", "k">>, FALSE),
   Re(<<"t", "i", "l", "e">>, FALSE)}

skipPrefixes ==
  {<<"c", "o", "m", ".", "a", "n", "d", "r", "o", "i", "d", ".">>,
   <<"c", "o", "m", ".", "g", "o", "o", "g", "l", "e", ".", "a", "n", "d", "r", "o", "i", "d", ".">>,
   <<"c", "o", "m", ".", "s", "a", "m", "s", "u", "n", "g", ".">>,
   <<"c", "o", "m", ".", "s", "e", "c", ".">>,
   <<"c", "o", "m", ".", "m", "i", "c", "r", "o", "s", "o", "f", "t", ".">>,
   <<"c", "o", "m", ".", "f", "a", "c", "e", "b", "o", "o", "k", ".">>,
   <<"c", "o", "m", ".", "m", "o", "n", "o", "t", "y", "p", "e", ".">>,
   <<"c", "o", "m", ".", "d", "s", "i", ".", "a", "n", "t", ".">>,
   <<"c", "o", "m", ".", "g", "d", ".", "m", "o", "b", "i", "c", "o", "r", "e", ".">>,
   <<"c", "o", "m", ".", "o", "s", "p", ".">>,
   <<"o", "r", "g", ".", "s", "i", "m", "a", "l", "l", "i", "a", "n", "c", "e", ".">>,
   <<"c", "o", "m", ".", "c", "l", "e", "a", "n", "m", "a", "s", "t", "e", "r", ".">>,
   <<"a", "n", "d", "r", "o", "i", "d", ".">>}

skipExact ==
  {<<"c", "o", "m", ".", "w", "h", "a", "t", "s", "a", "p", "p">>,
   <<"a", "n", "d", "r", "o", "i", "d">>,
   <<"c", "o", "m", ".", "w", "s", "o", "m", "a", "c", "p">>,
   <<"c", "o", "m", ".", "w", "s", "s", "n", "p", "s">>,
   <<"c", "o", "m", ".", "p", "o", "l", "i", "c", "y", "d", "m">>,
   <<"c", "o", "m", ".", "w", "s", "s", "y", "n", "c", "m", "l", "d", "m">>}

systemPatterns ==
  {Re(<<".", "s", "e", "r", "v", "i", "c", "e">>, TRUE),
   Re(<<".", "p", "r", "o", "v", "i", "d", "e", "r">>, TRUE),
   Re(<<".", "s", "i", "g", "n", "i", "n">>, TRUE),
   Re(<<".", "s", "o", "c", "k", "e", "t">>, TRUE),
   Re(<<".", "s", "e", "r", "v", "e", "r">>, TRUE),
   Re(<<".", "s", "d", "k">>, TRUE),
   Re(<<".", "p", "a">>, TRUE),
   Re(<<"f", "o", "n", "t", ".">>, FALSE)}

isSkippedPackage(pkg) ==
  \/ \E prefix \in skipPrefixes : startsWith(pkg, prefix)
  \/ pkg \in skipExact
  \/ \E pattern \in systemPatterns : test(pattern, pkg)

isKnownGame(pkg) == \E known \in KNOWN_GAME_PACKAGES : startsWith(pkg, known)
matchesPattern(pkg) == \E pattern \in GAME_PATTERNS : test(pattern, pkg)

\* formatPackageName: the last dot-separated part, a space put before every
\* capital, '_' and '-' turned into spaces, trimmed, each word capitalised.
LastPart(pkg) ==
  LET dots == {i \in 1..Len(pkg) : pkg[i] = "."}
  IN  IF dots = {} THEN pkg ELSE SubSeq(pkg, Max(dots) + 1, Len(pkg))
RECURSIVE Spaced(_)
Spaced(s) ==
  IF s = <<>> THEN <<>>
  ELSE (IF IsUpper(Head(s)) THEN <<" ", Head(s)>>
        ELSE IF Head(s) \in {"_", "-"} THEN <<" ">>
        ELSE <<Head(s)>>) \o Spaced(Tail(s))
Trim(s) ==
  LET inked == {i \in 1..Len(s) : s[i] # " "}
  IN  IF inked = {} THEN <<>>
      ELSE SubSeq(s, CHOOSE i \in inked : \A j \in inked : i <= j, Max(inked))
Capitalised(s) ==
  [i \in 1..Len(s) |-> IF i = 1 \/ s[i - 1] = " " THEN UpperChar(s[i]) ELSE LowerChar(s[i])]
formatPackageName(pkg) == Capitalised(Trim(Spaced(LastPart(pkg))))

IsGameKnownFirst(pkg) ==
  isKnownGame(pkg) \/ (~isSkippedPackage(pkg) /\ matchesPattern(pkg))

\* The body of the loop of filterGamePackages: whether pkg is pushed.
IsGame(pkg) ==
  IF isSkippedPackage(pkg) THEN FALSE ELSE isKnownGame(pkg) \/ matchesPattern(pkg)

Game(pkg, name) == [packageName |-> pkg, name |-> name]

\* A variant that puts each game in front of the ones found before it.
PushedInFront(packages) ==
  LET kept == SelectSeq(packages, IsGame)
      n    == Len(kept)
  IN  [i \in 1..n |-> Game(kept[n + 1 - i], formatPackageName(kept[n + 1 - i]))]

\* filterGamePackages: for (const pkg of packages) ... games.push(...)
Pushed(packages) ==
  LET kept == SelectSeq(packages, IsGame)
  IN  [i \in 1..Len(kept) |-> Game(kept[i], formatPackageName(kept[i]))]

\* The agent's classifier (handleScanApps, isGamePackage).

AGENT_KNOWN_GAME_PACKAGES ==
  {<<"t", "i", "l", "e", "p", "a", "r", "k">>,
   <<"p", "o", "o", "l", "b", "i", "l", "l", "i", "a", "r", "d">>,
   <<"p", "o", "o", "l", ".", "b", "i", "l", "l", "i", "a", "r", "d">>,
   <<"b", "i", "l", "l", "i", "a", "r", "d">>,
   <<"c", "o", "m", ".", "k", "i", "n", "g", ".">>,
   <<"c", "o", "m", ".", "s", "u", "p", "e", "r", "c", "e", "l", "l", ".">>,
   <<"c", "o", "m", ".", "r", "o", "v", "i", "o", ".">>,
   <<"c", "o", "m", ".", "g", "a", "m", "e", "l", "o", "f", "t", ".">>,
   <<"c", "o", "m", ".", "e", "a", ".", "g", "a", "m", "e">>,
   <<"c", "o", "m", ".", "z", "y", "n", "g", "a", ".">>,
   <<"c", "o", "m", ".", "o", "u", "t", "f", "i", "t", "7", ".">>,
   <<"c", "o", "m", ".", "h", "a", "l", "f", "b", "r", "i", "c", "k", ".">>,
   <<"c", "o", "m", ".", "m", "o", "j", "a", "n", "g", ".">>,
   <<"c", "o", "m", ".", "k", "i", "l", "o", "o", ".">>,
   <<"c", "o", "m", ".", "n", "e", "k", "k", "i", ".">>,
   <<"c", "o", "m", ".", "f", "i", "n", "g", "e", "r", "s", "o", "f", "t", ".">>,
   <<"c", "o", "m", ".", "d", "t", "s", ".", "f", "r", "e", "e", "f", "i", "r", "e", "t", "h">>,
   <<"c", "o", "m", ".", "t", "e", "n", "c", "e", "n", "t", ".", "i", "g">>,
   <<"c", "o", "m", ".", "p", "u", "b", "g", ".">>,
   <<"c", "o", "m", ".", "a", "c", "t", "i", "v", "i", "s", "i", "o", "n", ".">>,
   <<"c", "o", "m", ".", "r", "o", "b", "l", "o", "x", ".">>,
   <<"c", "o", "m", ".", "i", "g", "g", ".">>,
   <<"c", "o", "m", ".", "p", "l", "a", "y", "r", "i", "x", ".">>,
   <<"c", "o", "m", ".", "m", "i", "n", "i", "c", "l", "i", "p", ".">>,
   <<"c", "o", "m", ".", "n", "i", "m", "b", "l", "e", "b", "i", "t", ".">>,
   <<"c", "o", "m", ".", "k", "e", "t", "c", "h", "a", "p", "p", ".">>,
   <<"c", "o", "m", ".", "v", "o", "o", "d", "o", "o", ".">>,
   <<"c", "o", "m", ".", "y", "o", "d", "o", "1", ".">>,
   <<"c", "o", "m", ".", "a", "z", "u", "r", "g", "a", "m", "e", "s", ".">>,
   <<"c", "o", "m", ".", "c", "r", "a", "z", "y", "l", "a", "b", "s", ".">>,
   <<"c", "o", "m", ".", "l", "u", "d", "o", ".">>,
   <<"m", "e", ".", "p", "o", "u", ".">>}

\* Packages to explicitly exclude.
EXCLUDED_PACKAGES ==
  {<<"c", "o", "m", ".", "a", "n", "d", "r", "o", "i", "d">>,
   <<"c", "o", "m", ".", "g", "o", "o", "g", "l", "e">>,
   <<"c", "o", "m", ".", "s", "a", "m", "s", "u", "n", "g">>,
   <<"c", "o", "m", ".", "s", "e", "c", ".">>,
   <<"c", "o", "m", ".", "m", "i", "c", "r", "o", "s", "o", "f", "t">>,
   <<"c", "o", "m", ".", "f", "a", "c", "e", "b", "o", "o", "k", ".", "k", "a", "t", "a", "n", "a">>,
   <<"c", "o", "m", ".", "w", "h", "a", "t", "s", "a", "p", "p">>,
   <<"c", "o", "m", ".", "i", "n", "s", "t", "a", "g", "r", "a", "m">>,
   <<"c", "o", "m", ".", "t", "w", "i", "t", "t", "e", "r">>,
   <<"c", "o", "m", ".", "s", "n", "a", "p", "c", "h", "a", "t">>,
   <<"p", "r", "o", "v", "i", "d", "e", "r">>,
   <<"s", "e", "r", "v", "i", "c", "e">>,
   <<"s", "e", "t", "t", "i", "n", "g", "s">>,
   <<"l", "a", "u", "n", "c", "h", "e", "r">>,
   <<"k", "e", "y", "b", "o", "a", "r", "d">>,
   <<"c", "h", "r", "o", "m", "e">>,
   <<"b", "r", "o", "w", "s", "e", "r">>,
   <<"c", "a", "m", "e", "r", "a">>,
   <<"g", "a", "l", "l", "e", "r", "y">>,
   <<"p", "h", "o", "n", "e">>,
   <<"c", "o", "n", "t", "a", "c", "t", "s">>,
   <<"c", "a", "l", "e", "n", "d", "a", "r">>,
   <<"c", "l", "o", "c", "k">>,
   <<"c", "a", "l", "c", "u", "l", "a", "t", "o", "r">>,
   <<"w", "e", "a", "t", "h", "e", "r">>,
   <<"m", "u", "s", "i", "c">>,
   <<"v", "i", "d", "e", "o">>,
   <<"y", "o", "u", "t", "u", "b", "e">>,
   <<"m", "a", "p", "s">>,
   <<"d", "r", "i", "v", "e">>,
   <<"d", "o", "c", "s">>,
   <<"s", "h", "e", "e", "t", "s">>,
   <<"s", "l", "i", "d", "e", "s">>,
   <<"g", "m", "a", "i", "l">>,
   <<"e", "m", "a", "i", "l">>,
   <<"m", "e", "s", "s", "a", "g", "e">>,
   <<"d", "i", "a", "l", "e", "r">>}

strictGameTerms ==
  {Re(<<".", "g", "a", "m", "e", ".">>, FALSE),
   Re(<<".", "g", "a", "m", "e", "s", ".">>, FALSE),
   Re(<<"p", "u", "z", "z", "l", "e">>, FALSE),
   Re(<<"a", "r", "c", "a", "d", "e">>, FALSE),
   Re(<<"c", "a", "n", "d", "y">>, FALSE),
   Re(<<"c", "r", "u", "s", "h">>, FALSE),
   Re(<<"c", "l", "a", "s", "h">>, FALSE),
   Re(<<"c", "r", "a", "f", "t">>, FALSE),
   Re(<<"q", "u", "e", "s", "t">>, FALSE),
   Re(<<"t", "i", "l", "e">>, FALSE),
   Re(<<"m", "a", "t", "c", "h", "3">>, FALSE),
   Re(<<"b", "u", "b", "b", "l", "e">>, FALSE),
   Re(<<"j", "e", "w", "e", "l">>, FALSE),
   Re(<<"s", "o", "l", "i", "t", "a", "i", "r", "e">>, FALSE),
   Re(<<"p", "o", "k", "e", "r">>, FALSE),
   Re(<<"c", "h", "e", "s", "s">>, FALSE),
   Re(<<"s", "u", "d", "o", "k", "u">>, FALSE),
   Re(<<"t", "r", "i", "v", "i", "a">>, FALSE),
   Re(<<"q", "u", "i", "z">>, FALSE),
   Re(<<"z", "o", "m", "b", "i", "e">>, FALSE),
   Re(<<"d", "r", "a", "g", "o", "n">>, FALSE),
   Re(<<"n", "i", "n", "j", "a">>, FALSE),
   Re(<<"h", "e", "r", "o">>, FALSE),
   Re(<<"s", "a", "g", "a">>, FALSE),
   Re(<<"t", "o", "w", "e", "r">>, FALSE),
   Re(<<"d", "e", "f", "e", "n", "s", "e">>, FALSE),
   Re(<<"b", "a", "t", "t", "l", "e">>, FALSE),
   Re(<<"s", "t", "r", "i", "k", "e">>, FALSE),
   Re(<<"w", "a", "r", ".">>, FALSE),
   Re(<<"f", "a", "r", "m">>, FALSE),
   Re(<<"c", "i", "t", "y">>, FALSE),
   Re(<<"t", "y", "c", "o", "o", "n">>, FALSE),
   Re(<<"i", "d", "l", "e">>, FALSE),
   Re(<<"c", "l", "i", "c", "k", "e", "r">>, FALSE),
   Re(<<"r", "a", "c", "i", "n", "g">>, FALSE),
   Re(<<"d", "r", "i", "f", "t">>, FALSE),
   Re(<<"r", "u", "n", "n", "e", "r">>, FALSE),
   Re(<<"e", "n", "d", "l", "e", "s", "s">>, FALSE),
   Re(<<"p", "o", "o", "l">>, FALSE),
   Re(<<"b", "i", "l", "l", "i", "a", "r", "d">>, FALSE),
   Re(<<"s", "n", "o", "o", "k", "e", "r">>, FALSE),
   Re(<<"8", "b", "a", "l", "l">>, FALSE)}

isExcluded(pkg) == \E ex \in EXCLUDED_PACKAGES : includes(toLowerCase(pkg), ex)

isGamePackage(pkg) ==
  IF isExcluded(pkg) THEN FALSE
  ELSE IF \E known \in AGENT_KNOWN_GAME_PACKAGES : includes(toLowerCase(pkg), toLowerCase(known))
  THEN TRUE
  ELSE \E pattern \in strictGameTerms : test(pattern, toLowerCase(pkg))

\* pkg.split('.').pop().replace(/([A-Z])/g, ' $1').trim() || pkg, with its
\* first character in upper case.
RECURSIVE SpacedCaps(_)
SpacedCaps(s) ==
  IF s = <<>> THEN <<>>
  ELSE (IF IsUpper(Head(s)) THEN <<" ", Head(s)>> ELSE <<Head(s)>>) \o SpacedCaps(Tail(s))
AppName(pkg) ==
  LET t    == Trim(SpacedCaps(LastPart(pkg)))
      name == IF t = <<>> THEN pkg ELSE t
  IN  [i \in 1..Len(name) |-> IF i = 1 THEN UpperChar(name[i]) ELSE name[i]]

handleScanApps(packages) ==
  LET kept == SelectSeq(packages, isGamePackage)
  IN  [i \in 1..Len(kept) |-> Game(kept[i], AppName(kept[i]))]

\* Installed packages the classifiers are given.

PkgCandyCrush == <<"c", "o", "m", ".", "k", "i", "n", "g", ".", "c", "a", "n", "d", "y", "c", "r", "u", "s", "h", "s", "a", "g", "a">>
PkgSettings == <<"c", "o", "m", ".", "a", "n", "d", "r", "o", "i", "d", ".", "s", "e", "t", "t", "i", "n", "g", "s">>
PkgPlayGames == <<"c", "o", "m", ".", "g", "o", "o", "g", "l", "e", ".", "a", "n", "d", "r", "o", "i", "d", ".", "p", "l", "a", "y", ".", "g", "a", "m", "e", "s">>
PkgWhatsApp == <<"c", "o", "m", ".", "w", "h", "a", "t", "s", "a", "p", "p">>
PkgTilePark == <<"c", "o", "m", ".", "f", "u", "n", "v", "e", "n", "t", ".", "t", "i", "l", "e", "p", "a", "r", "k">>
PkgSpotify == <<"c", "o", "m", ".", "s", "p", "o", "t", "i", "f", "y", ".", "m", "u", "s", "i", "c">>
PkgPokerService == <<"c", "o", "m", ".", "z", "y", "n", "g", "a", ".", "p", "o", "k", "e", "r", ".", "s", "e", "r", "v", "i", "c", "e">>
PkgPool == <<"c", "o", "m", ".", "m", "i", "n", "i", "c", "l", "i", "p", ".", "e", "i", "g", "h", "t", "b", "a", "l", "l", "p", "o", "o", "l">>
PkgTalkingTom == <<"c", "o", "m", ".", "o", "u", "t", "f", "i", "t", "7", ".", "M", "y", "T", "a", "l", "k", "i", "n", "g", "T", "o", "m", "_", "2">>
Packages ==
  {PkgCandyCrush, PkgSettings, PkgPlayGames, PkgWhatsApp, PkgTilePark,
   PkgSpotify, PkgPokerService, PkgPool, PkgTalkingTom}

\* The package lists of at most MaxPkgs entries.
PackageLists == UNION {[1..n -> Packages] : n \in 0..MaxPkgs}

\* A call on hand with its argument, before the function has run.
Called(packages) == [NoResponse EXCEPT !.packages = packages]

\* filterGamePackages applied to the list of package names on hand, for the
\* first time or once more.
FilterGamePackages ==
  /\ resp.op \in {"none", "filterGamePackages"}
  /\ resp' = [Response("filterGamePackages", "absent", "", <<>>)
                EXCEPT !.packages = resp.packages, !.games = Pushed(resp.packages)]
  /\ UNCHANGED <<conn, upd, cfg, envUrl, visionKey, devices, sessions, actions, loops>>

\* The agent's handleScanApps applied to the output of pm list packages.
HandleScanApps ==
  /\ resp.op = "none"
  /\ resp' = [Response("handleScanApps", "absent", "", <<>>)
                EXCEPT !.packages = resp.packages, !.games = handleScanApps(resp.packages)]
  /\ UNCHANGED <<conn, upd, cfg, envUrl, visionKey, devices, sessions, actions, loops>>

\* ------------------------------------------------- agent: POST /action
\* The body of POST /action as the agent destructures it: type, coordinates,
\* packageName, swipeDirection, duration, deviceId. A field that the body
\* does not carry is NoCoords, NoPkg, "none", NoDuration, NoId.
NoDuration == [has |-> FALSE, ms |-> 0]
Duration(ms) == [has |-> TRUE, ms |-> ms]
ActionBody(type, coordinates, packageName, swipeDirection, duration, deviceId) ==
  [type |-> type, coordinates |-> coordinates, packageName |-> packageName,
   swipeDirection |-> swipeDirection, duration |-> duration, deviceId |-> deviceId]

\* const directions = { up: '540 1500 540 500', ... }
directions ==
  [d \in {"up", "down", "left", "right"} |->
     CASE d = "up"    -> <<540, 1500, 540, 500>>
       [] d = "down"  -> <<540, 500, 540, 1500>>
       [] d = "left"  -> <<900, 960, 100, 960>>
       [] d = "right" -> <<100, 960, 900, 960>>]

\* directions[swipeDirection] || directions.up
swipeCoords(swipeDirection) ==
  IF swipeDirection \in DOMAIN directions THEN directions[swipeDirection] ELSE directions["up"]

swipeDurationNoDefault(duration) == duration.ms

\* duration || 300: an absent duration and a duration of 0 are both falsy.
swipeDuration(duration) == IF duration.has /\ duration.ms # 0 THEN duration.ms ELSE 300

\* deviceId ? `adb -s ${deviceId}` : 'adb'
adbPrefix(deviceId) == IF deviceId = NoId THEN <<"adb">> ELSE <<"adb", "-s", deviceId>>

\* The command the switch builds; <<>> when the handler answers 400 instead.
command(b) ==
  CASE b.type = "tap" ->
         IF b.coordinates.has /\ b.coordinates.num
         THEN adbPrefix(b.deviceId) \o <<"shell", "input", "tap", b.coordinates.x, b.coordinates.y>>
         ELSE <<>>
    [] b.type = "swipe" ->
         adbPrefix(b.deviceId) \o <<"shell", "input", "swipe">> \o swipeCoords(b.swipeDirection)
           \o <<swipeDuration(b.duration)>>
    [] b.type = "open_app" ->
         IF b.packageName # NoPkg
         THEN adbPrefix(b.deviceId) \o <<"shell", "monkey", "-p", b.packageName>>
         ELSE <<>>
    [] b.type = "close_app" ->
         IF b.packageName # NoPkg
         THEN adbPrefix(b.deviceId) \o <<"shell", "am", "force-stop", b.packageName>>
         ELSE <<>>
    [] b.type = "screenshot" -> adbPrefix(b.deviceId) \o <<"shell", "screencap">>
    [] OTHER -> <<>>

\* The screens of the devices a swipe is sent to, width and height in pixels.
Screens == {<<720, 1280>>, <<1080, 1920>>, <<1440, 2560>>}

\* The bodies posted to /action in SpecAgent.
PostedBodies ==
  {ActionBody(t, c, pkg, d, ms, dev) :
     t \in {"tap", "swipe", "open_app", "close_app", "screenshot", "long_press"},
     c \in {NoCoords, Coords(360, 640)},
     pkg \in {NoPkg, CandyCrush.pkg},
     d \in {"none", "up", "down", "left", "right", "diagonal"},
     ms \in {NoDuration, Duration(0), Duration(150), Duration(300)},
     dev \in {NoId, "hA"}}

Received(b, screen) == [NoResponse EXCEPT !.posted = b, !.screen = screen]

\* app.post('/action'): 400 when no command is built, else the command is
\* run on the device and the answer is 200, or 500 when running it throws.
PostAction(ran) ==
  /\ resp.op = "none"
  /\ LET cmd == command(resp.posted)
     IN  resp' = [Response("/action",
                           IF cmd # <<>> /\ ran THEN "true" ELSE "false", "", <<>>)
                    EXCEPT !.posted = resp.posted, !.screen = resp.screen, !.command = cmd,
                           !.answer = IF cmd = <<>> THEN "400" ELSE IF ran THEN "200" ELSE "500"]
  /\ UNCHANGED <<conn, upd, cfg, envUrl, visionKey, devices, sessions, actions, loops>>

\* ------------------------------------------------- dashboard: startBotLoop
\* setInterval(runLoop, 2000); iterations: 3; the delay between iterations.
IntervalMs == 2000
DashboardIterations == 3
DelayMs == 300

\* The longest an invocation of n iterations can take to answer, counting
\* the requests that carry a timeout: per iteration two screenshot requests
\* and one action, and the delay between iterations.
LongestMs(n) == n * (2 * ScreenshotTimeoutMs + ActionTimeoutMs) + (n - 1) * DelayMs

\* One call of runLoop: startBotLoop awaits the first call and sets the
\* interval afterwards; the interval then calls runLoop every IntervalMs,
\* whether the call before has answered or not. Each call asks for as many
\* of the DashboardIterations as the row bound leaves to an invocation.
runLoop(p) ==
  LET n == IF DashboardIterations <= MaxActions \div 2 THEN DashboardIterations
           ELSE MaxActions \div 2
  IN  /\ IF sessions[1].updated_at = "start"
         THEN \A q \in Procs : loops[q].pc = "idle"
         ELSE \A q \in Procs : loops[q].pc \in InFlight => IntervalMs < LongestMs(loops[q].n)
      /\ RunBegin(p, 1, devices[sessions[1].dev].hw, n)

\* --------------------------------------------------------- specifications
\* One registered device, as connect_device leaves it when the agent
\* enumerates hA in the ready sub-state.
Registered == [d \in {"d1"} |-> Device("n1", "hA", "online")]

\* Spec: the play loop. A session is running on the registered device and an
\* address is in the config store; run_bot_loop is invoked one invocation at
\* a time while the dashboard stops, pauses and resumes the session.
Init ==
  /\ cfg = Migrated
  /\ envUrl = NoUrl
  /\ visionKey \in BOOLEAN
  /\ devices = Registered
  /\ \E g \in {TilePark, CandyCrush} : sessions = <<Session("d1", g, "running")>>
  /\ actions = <<>>
  /\ loops = [p \in Procs |-> IdleLoop]
  /\ upd = [u \in Updaters |-> IdleUpdate]
  /\ conn = [c \in Callers |-> IdleConnect]
  /\ resp = NoResponse

Next ==
  \/ StopBotSession(1)
  \/ \E st \in {"paused", "active"} : handleGameStatusChange(1, st)
  \/ \E hw \in HwIds \cup {NoId}, n \in 0..MaxIter : RunBegin(1, 1, hw, n)
  \/ \E m1, m2 \in Moods : RunShot(1, m1, m2)
  \/ \E v \in VisionAnswers, r1, r2 \in 0..MaxRand : RunDecide(1, v, r1, r2)
  \/ \E m \in Moods : RunAct(1, m)
  \/ RunLog(1)
  \/ RunWrite(1)

Spec == Init /\ [][Next]_vars

\* SpecSession: the session lifecycle. Sessions are started, stopped, paused
\* and resumed while the device's status follows the agent's enumeration.
InitSession ==
  /\ cfg = Migrated
  /\ envUrl = NoUrl
  /\ visionKey = FALSE
  /\ devices = Registered
  /\ sessions = <<>>
  /\ actions = <<>>
  /\ loops = [p \in Procs |-> IdleLoop]
  /\ upd = [u \in Updaters |-> IdleUpdate]
  /\ conn = [c \in Callers |-> IdleConnect]
  /\ resp = NoResponse

NextSession ==
  \/ \E id \in {"d1", "hA", "hB"}, g \in Games, m1, m2 \in Moods : StartBotSession(id, g, m1, m2)
  \/ \E sid \in 1..MaxSessions : StopBotSession(sid)
  \/ \E sid \in 1..MaxSessions, st \in {"paused", "active"} : handleGameStatusChange(sid, st)
  \/ \E id \in {"d1", "hA"}, m \in Moods, l \in DeviceLists : CheckDeviceStatus(id, m, l)
  \/ \E id \in {"d1", "hA", NoId}, f \in {"none", "adb_host"} : UpdateDevice(id, f)
  \/ UnknownAction

SpecSession == InitSession /\ [][NextSession]_vars

\* SpecCfg: the address configuration. The agent's self-announcement and a
\* manual update call update-adb-url, each invocation a deactivate step and
\* an insert step, in any interleaving.
InitCfg ==
  /\ cfg = Migrated
  /\ envUrl \in {NoUrl, "env"}
  /\ visionKey = FALSE
  /\ devices = Registered
  /\ sessions = <<>>
  /\ actions = <<>>
  /\ loops = [p \in Procs |-> IdleLoop]
  /\ upd = [u \in Updaters |-> IdleUpdate]
  /\ conn = [c \in Callers |-> IdleConnect]
  /\ resp = NoResponse

NextCfg ==
  \/ \E u \in Updaters, url \in Urls : UpdDeactivate(u, url)
  \/ \E u \in Updaters, ok \in BOOLEAN : UpdInsert(u, ok)

SpecCfg == InitCfg /\ [][NextCfg]_vars

\* The DeviceActions a caller of execute_action sends in SpecGateway.
SentActions ==
  {Tap(Coords(CenterX, CenterY), "hA"), Tap(NoCoords, "hA"),
   AppAction("open_app", CandyCrush.pkg, "hA"), AppAction("open_app", NoPkg, "hA")}

\* What the agent does with a request in SpecGateway (with a probe: GET
\* /health, GET /devices), and what it enumerates during one call.
GatewayMoods == {"up", "missing", "odd", "down", "silent"}
ProbeMoods == {"up", "silent"}
GatewayLists == {<<>>, <<Attached("hA", "device")>>, <<Attached("hA", "unauthorized")>>}

\* SpecGateway: the entry points that depend on the agent's address, called
\* one at a time, with the address in the config store, in the environment
\* only, or nowhere. run_bot_loop is called here while the address cannot be
\* resolved; Spec has its runs with an address.
InitGateway ==
  /\ cfg \in {Migrated, Deactivated(Migrated)}
  /\ envUrl \in {NoUrl, "env"}
  /\ visionKey = FALSE
  /\ devices = Registered
  /\ sessions = <<>>
  /\ actions = <<>>
  /\ loops = [p \in Procs |-> IdleLoop]
  /\ upd = [u \in Updaters |-> IdleUpdate]
  /\ conn = [c \in Callers |-> IdleConnect]
  /\ resp = NoResponse

NextGateway ==
  \/ \E hw \in HwIds, m1, m2 \in ProbeMoods, l \in GatewayLists :
       ConnectDevice("n1", hw, m1, l, m2, l)
  \/ \E id \in {"d1", "hA"}, m \in GatewayMoods, l \in GatewayLists : CheckDeviceStatus(id, m, l)
  \/ \E sid \in 0..1, a \in SentActions, m \in GatewayMoods : ExecuteDeviceAction(sid, a, m)
  \/ \E m \in GatewayMoods : GetDeviceScreenshot("hA", m)
  \/ \E id \in {"d1", "hA"}, m \in GatewayMoods : ExecuteTapAction(id, CenterX, CenterY, m)
  \/ \E id \in {"d1", "hA"}, m1, m2, m4 \in ProbeMoods, m3 \in GatewayMoods :
       ScanDeviceGames(id, m1, m2, m3, m4)
  \/ \E id \in {"d1", "hA"}, m1, m2 \in GatewayMoods : StartBotSession(id, CandyCrush, m1, m2)
  \/ \E n \in 0..1 : getAdbServerUrl(cfg, envUrl) = NoUrl /\ RunBegin(1, 1, NoId, n)

SpecGateway == InitGateway /\ [][NextGateway]_vars

\* What the agent does with a status query in SpecRegistry, and what it
\* enumerates.
RegistryMoods == {"up", "fail", "silent"}
RegistryLists ==
  {<<>>, <<Attached("hA", "device")>>,
   <<Attached("hB", "unauthorized"), Attached("hA", "device")>>}

\* SpecRegistry: the device registry. No device is registered at first;
\* connect_device and check_device_status are called one at a time.
InitRegistry ==
  /\ cfg = Migrated
  /\ envUrl = NoUrl
  /\ visionKey = FALSE
  /\ devices = [d \in {} |-> Device("", NoId, "offline")]
  /\ sessions = <<>>
  /\ actions = <<>>
  /\ loops = [p \in Procs |-> IdleLoop]
  /\ upd = [u \in Updaters |-> IdleUpdate]
  /\ conn = [c \in Callers |-> IdleConnect]
  /\ resp = NoResponse

NextRegistry ==
  \/ \E name \in {"n1", "n2"}, hw \in HwIds, m1, m2 \in RegistryMoods,
        l1, l2 \in RegistryLists : ConnectDevice(name, hw, m1, l1, m2, l2)
  \/ \E id \in DurableIds \cup HwIds, m \in RegistryMoods, l \in RegistryLists :
       CheckDeviceStatus(id, m, l)

SpecRegistry == InitRegistry /\ [][NextRegistry]_vars

\* SpecRaces: connect_device calls of two callers in any interleaving of
\* their steps, with one another and with check_device_status. The agent
\* answers or stays silent, and enumerates the same list throughout a call.
RaceMoods == {"up", "silent"}
RaceLists == {<<>>, <<Attached("hA", "device")>>}

NextRaces ==
  \/ \E c \in Callers, name \in {"n1", "n2"}, hw \in HwIds, m1, m2 \in RaceMoods,
        l \in RaceLists : ConnectRead(c, name, hw, m1, l, m2, l)
  \/ \E c \in Callers : ConnectWrite(c)
  \/ \E id \in DurableIds, m \in RaceMoods, l \in RaceLists : CheckDeviceStatus(id, m, l)

SpecRaces == InitRegistry /\ [][NextRaces]_vars

\* Two registered devices, the second registered under a hardware id that
\* reads like the first one's durable id.
Overlapping ==
  [d \in {"d1", "d2"} |->
     IF d = "d1" THEN Device("n1", "hA", "online") ELSE Device("n2", "d1", "online")]
LookupLists == {<<>>, <<Attached("hA", "device"), Attached("d1", "device")>>}

\* SpecLookup: sessions are started by durable id and by hardware id, and
\* stopped, while the devices go offline and come back.
InitLookup ==
  /\ cfg = Migrated
  /\ envUrl = NoUrl
  /\ visionKey = FALSE
  /\ devices = Overlapping
  /\ sessions = <<>>
  /\ actions = <<>>
  /\ loops = [p \in Procs |-> IdleLoop]
  /\ upd = [u \in Updaters |-> IdleUpdate]
  /\ conn = [c \in Callers |-> IdleConnect]
  /\ resp = NoResponse

NextLookup ==
  \/ \E id \in DurableIds \cup HwIds, g \in {TilePark, CandyCrush}, m1, m2 \in RaceMoods :
       StartBotSession(id, g, m1, m2)
  \/ \E sid \in 1..MaxSessions : StopBotSession(sid)
  \/ \E id \in DurableIds, l \in LookupLists : CheckDeviceStatus(id, "up", l)

SpecLookup == InitLookup /\ [][NextLookup]_vars

\* SpecResolve: the address is resolved by check_device_status calls while
\* update-adb-url invocations change the config store, with and without
\* ADB_SERVER_URL in the environment.
ResolveLists == {<<>>, <<Attached("hA", "device")>>}

NextResolve ==
  \/ \E u \in Updaters, url \in Urls : UpdDeactivate(u, url)
  \/ \E u \in Updaters, ok \in BOOLEAN : UpdInsert(u, ok)
  \/ \E m \in RaceMoods, l \in ResolveLists : CheckDeviceStatus("d1", m, l)

SpecResolve == InitCfg /\ [][NextResolve]_vars

\* SpecClassify: one of the two classifiers is applied to a package list.
InitClassify ==
  /\ cfg = Migrated
  /\ envUrl = NoUrl
  /\ visionKey = FALSE
  /\ devices = Registered
  /\ sessions = <<>>
  /\ actions = <<>>
  /\ loops = [p \in Procs |-> IdleLoop]
  /\ upd = [u \in Updaters |-> IdleUpdate]
  /\ conn = [c \in Callers |-> IdleConnect]
  /\ resp \in {Called(packages) : packages \in PackageLists}

NextClassify ==
  \/ FilterGamePackages
  \/ HandleScanApps

SpecClassify == InitClassify /\ [][NextClassify]_vars

\* SpecAgent: the agent receives one POST /action for a device with one of
\* the screens.
InitAgent ==
  /\ cfg = Migrated
  /\ envUrl = NoUrl
  /\ visionKey = FALSE
  /\ devices = Registered
  /\ sessions = <<>>
  /\ actions = <<>>
  /\ loops = [p \in Procs |-> IdleLoop]
  /\ upd = [u \in Updaters |-> IdleUpdate]
  /\ conn = [c \in Callers |-> IdleConnect]
  /\ resp \in {Received(b, screen) : b \in PostedBodies, screen \in Screens}

NextAgent == \E ran \in BOOLEAN : PostAction(ran)

SpecAgent == InitAgent /\ [][NextAgent]_vars

\* SpecConcurrent: two run_bot_loop invocations for the same running
\* session, their steps in any interleaving; the agent answers or fails.
NextConcurrent ==
  \/ \E p \in Procs, n \in 0..1 : RunBegin(p, 1, NoId, n)
  \/ \E p \in Procs, m \in {"up", "down"} : RunShot(p, m, m)
  \/ \E p \in Procs, v \in VisionAnswers : RunDecide(p, v, 0, 0)
  \/ \E p \in Procs, m \in {"up", "fail"} : RunAct(p, m)
  \/ \E p \in Procs : RunLog(p)
  \/ \E p \in Procs : RunWrite(p)

SpecConcurrent == Init /\ [][NextConcurrent]_vars

\* SpecDashboard: the dashboard plays a running session: runLoop is called
\* once and then on the timer, while the invocations take their steps.
NextDashboard ==
  \/ \E p \in Procs : runLoop(p)
  \/ \E p \in Procs, m \in {"up", "down", "silent"} : RunShot(p, m, m)
  \/ \E p \in Procs, v \in VisionAnswers : RunDecide(p, v, 0, 0)
  \/ \E p \in Procs, m \in {"up", "fail", "silent"} : RunAct(p, m)
  \/ \E p \in Procs : RunLog(p)
  \/ \E p \in Procs : RunWrite(p)

SpecDashboard == Init /\ [][NextDashboard]_vars

\* SpecFailing: run_bot_loop is invoked again and again for a running
\* session while the agent rejects, fails or never answers every action.
\* An invocation that has begun takes its next step (every await returns:
\* the requests carry timeouts), and the caller keeps invoking.
NextFailing ==
  \/ \E n \in 0..MaxIter : RunBegin(1, 1, NoId, n)
  \/ \E m \in {"up", "down"} : RunShot(1, m, m)
  \/ \E v \in VisionAnswers : RunDecide(1, v, 0, 0)
  \/ \E m \in {"fail", "down", "silent"} : RunAct(1, m)
  \/ RunLog(1)
  \/ RunWrite(1)

SpecFailing == Init /\ [][NextFailing]_vars /\ WF_vars(NextFailing)

\* ------------------------------------------------------------------ claims
\* A step in which start_bot_session returns.
StartReturns ==
  /\ resp'.op = "start_bot_session"
  /\ resp' # resp \/ Len(sessions') # Len(sessions)

\* C1: start_bot_session against a device whose stored status is not online
\* fails, creates no bot_sessions row and sends nothing to the agent; against
\* an online device it creates exactly one row, with status running.
C1_StartGatedByStatus ==
  [][StartReturns =>
      IF resp'.device = NoId \/ devices[resp'.device].status # "online"
      THEN /\ resp'.success # "true"
           /\ sessions' = sessions
           /\ resp'.reqs = <<>>
      ELSE /\ resp'.success = "true"
           /\ Len(sessions') = Len(sessions) + 1
           /\ SubSeq(sessions', 1, Len(sessions)) = sessions
           /\ sessions'[Len(sessions')].status = "running"
           /\ sessions'[Len(sessions')].dev = resp'.device]_vars

\* A start against the offline device has failed, after an earlier start
\* against the same device, then online, created a running session.
C1_Witness ==
  /\ resp.op = "start_bot_session"
  /\ resp.success # "true"
  /\ resp.device = "d1"
  /\ devices["d1"].status = "offline"
  /\ Len(sessions) = 1
  /\ sessions[1].status = "running"

\* C2: an invocation of run_bot_loop with iterations = N >= 1 starts at most
\* N cycles, sends at most N actions to the agent, and the counter it writes
\* is at most N above the counter it read.
C2_AtMostNCycles ==
  \A p \in Procs :
    LET l == loops[p]
    IN  /\ l.pc \in InFlight => l.n >= 1
        /\ l.i <= l.n
        /\ l.pc \in {"shot", "decide", "act", "log"} => l.i < l.n
        /\ l.nShot <= l.n
        /\ l.nAct <= l.n
        /\ l.actionsPerformed <= l.base + l.n
        /\ l.wrote => sessions[l.sid].actions_performed <= l.base + l.n

\* An invocation with the largest N has run N full cycles and written.
C2_Witness ==
  /\ loops[1].wrote
  /\ loops[1].n = MaxIter
  /\ loops[1].nAct = MaxIter
  /\ sessions[1].actions_performed = loops[1].base + MaxIter

\* The bot_actions rows written by invocation p: with one invocation at a
\* time, the last `results` rows.
C3_Balanced(l) ==
  LET done == l.actionsPerformed - l.base
  IN  CASE l.pc \in {"decide", "act"} -> l.nShot = l.nAct + 1 /\ l.nAct = done /\ done = l.results
        [] l.pc = "log"               -> l.nShot = l.nAct /\ l.nAct = done /\ done = l.results + 1
        [] OTHER                      -> l.nShot = l.nAct /\ l.nAct = done /\ done = l.results

\* C3: every cycle of run_bot_loop that captured a screenshot sends exactly
\* one action, appends exactly one bot_actions row whose success flag is the
\* action's outcome, and raises the counter by one, whether or not the action
\* succeeded; a run with iterations = 1 and a captured screenshot leaves
\* exactly one row.
C3_OneActionPerCycle ==
  /\ [](\A p \in Procs : C3_Balanced(loops[p]))
  /\ [](loops[1].wrote =>
          /\ sessions[1].actions_performed = loops[1].base + loops[1].nShot
          /\ Len(actions) >= loops[1].results
          /\ (loops[1].n = 1 /\ loops[1].nShot = 1 => loops[1].results = 1))
  /\ [][loops[1].pc = "log" /\ loops'[1].pc # "log" =>
          /\ Len(actions') = Len(actions) + 1
          /\ actions'[Len(actions')].success = loops[1].success
          /\ actions'[Len(actions')].session_id = loops[1].sid
          /\ actions'[Len(actions')].coordinates = loops[1].action.coordinates]_vars

\* A one-cycle invocation has completed whose action failed: the failure is
\* recorded in the one row it wrote and the counter went up by one.
C3_Witness ==
  /\ loops[1].wrote
  /\ loops[1].n = 1
  /\ loops[1].results = 1
  /\ Len(actions) = 1
  /\ ~actions[1].success
  /\ sessions[1].actions_performed = loops[1].base + 1

\* The coordinates analyzeScreenHeuristic can choose for a game name.
HeuristicMoves(gameName) ==
  {analyzeScreenHeuristic(gameName, r1, r2).action.coordinates : r1, r2 \in 0..15}

\* C4: when the vision backend throws, times out, answers non-OK or returns
\* text with no parsable decision, the cycle goes on with an action chosen
\* by the heuristic, and the invocation returns success with no error.
C4_VisionFailureFallsBack ==
  \A p \in Procs :
    LET l == loops[p]
    IN  /\ l.vision \in VisionFailures =>
             /\ l.pc \in {"act", "log"}
             /\ l.by = "heuristic"
             /\ l.action.type = "tap"
             /\ l.action.coordinates \in HeuristicMoves(sessions[l.sid].game.name)
             /\ ENABLED RunStep(p)
        /\ l.nVis > 0 /\ l.pc = "idle" =>
             l.wrote /\ l.ret.success = "true" /\ l.ret.error = ""

\* The backend call threw, and the action the heuristic chose has been sent.
C4_Witness ==
  /\ loops[1].pc = "log"
  /\ loops[1].vision = "throw"
  /\ loops[1].by = "heuristic"
  /\ loops[1].nAct = 1

\* C5: an invocation of run_bot_loop whose status check reads stopped returns
\* a failure, having sent nothing to the agent, written no bot_actions row
\* and not written the counter; an invocation past its status check always
\* has its next step enabled, whatever the session's status has become.
C5_StopGatesNewInvocations ==
  \A p \in Procs :
    LET l == loops[p]
    IN  /\ l.read = "stopped" =>
             /\ l.pc = "idle"
             /\ l.ret.success = "false"
             /\ l.last = <<>> /\ l.nShot = 0 /\ l.nAct = 0
             /\ l.results = 0
             /\ ~l.wrote
        /\ l.pc \in InFlight => l.read = "running" /\ ENABLED RunStep(p)

\* The session was stopped while an invocation was in flight: the action of
\* the current cycle has been sent and its row is about to be written.
C5_Witness ==
  /\ sessions[1].status = "stopped"
  /\ loops[1].pc = "log"
  /\ loops[1].nAct = 1

\* The status changes the session state machine allows.
AllowedTransitions ==
  {<<"running", "paused">>, <<"running", "stopped">>, <<"paused", "running">>,
   <<"paused", "stopped">>, <<"running", "error">>}

\* C6: a session's status changes only along running->paused,
\* running->stopped, paused->running, paused->stopped and running->error;
\* a stopped session's status never changes again.
C6_StatusTransitions ==
  [][\A s \in 1..Len(sessions) :
       \/ sessions'[s].status = sessions[s].status
       \/ <<sessions[s].status, sessions'[s].status>> \in AllowedTransitions]_vars

\* C7: at every point of every execution, whatever the number and the
\* interleaving of address updates, exactly one adb_server_config row is
\* active.
C7_ExactlyOneActive == Cardinality(ActiveRows(cfg)) = 1

\* The responses on hand: that of the last call and those of run_bot_loop.
Responses == {resp} \cup {loops[p].ret : p \in Procs}

\* The operations that need the agent's address.
AddressDependent ==
  {"connect_device", "check_device_status", "execute_action", "get_device_screenshot",
   "start_bot_session", "run_bot_loop", "scan_device_games"}

\* C8: while neither an active config row nor ADB_SERVER_URL exists, every
\* call of an operation that depends on the address is answered without
\* success, with the error of the resolver, with no simulated result and
\* with no effect on the bot_actions rows.
C8_NoAddressIsReported ==
  getAdbServerUrl(cfg, envUrl) = NoUrl =>
    /\ \A r \in Responses :
         r.op \in AddressDependent =>
           r.success # "true" /\ r.error = ErrNoUrl /\ ~r.simulated
    /\ actions = <<>>

\* C9: an execute_action call given a tap without numeric coordinates, or an
\* open_app or close_app without a package name, is answered with a failure
\* and sends no request to the agent.
C9_MalformedRejectedBeforeNetwork ==
  resp.op = "execute_action" /\ Malformed(resp.action) =>
    /\ resp.success \in {"false", "absent"}
    /\ resp.reqs = <<>>

\* The agent requests on hand: those of the last call and of the last step
\* of each run_bot_loop invocation.
Requests ==
  {resp.reqs[k] : k \in 1..Len(resp.reqs)} \cup
  UNION {{loops[p].last[k] : k \in 1..Len(loops[p].last)} : p \in Procs}

\* C10: every request sent to the agent carries a timeout, and no call is
\* left without an answer when the agent stays silent.
C10_EveryRequestTimesOut ==
  /\ \A r \in Requests : r.tmo > NoTimeout
  /\ resp.success # "pending"

\* The answers of the agent that are no success: the connection failed or
\* timed out, the status is not OK, or the body is not a result.
NoSuccessAnswers == {"throw", "400", "404", "500", "garbled", "odd"}

\* C11: when the POST /action of an execution fails, times out, is answered
\* with a non-OK status or with a malformed body, the execution returns
\* success = false: in run_bot_loop, in execute_tap and in execute_action.
C11_AgentFailureIsFalse ==
  /\ \A p \in Procs :
       loops[p].pc = "log" /\ loops[p].answer \in NoSuccessAnswers => ~loops[p].success
  /\ resp.op \in {"execute_action", "execute_tap"} /\ resp.answer \in NoSuccessAnswers =>
       resp.success = "false"

\* C12: every response of the orchestrator, for every operation name and
\* every failure of a dependency, carries a boolean success field.
C12_EveryResponseHasSuccess ==
  \A r \in Responses : r.op # "none" => r.success \in {"true", "false"}

\* C13: when connect_device or check_device_status has completed, the stored
\* status of the device is online if and only if the device list the agent
\* answered the status query with holds an entry with the device's hardware
\* id in the ready sub-state; any other sub-state yields offline.
C13_OnlineIffReady ==
  resp.op \in {"connect_device", "check_device_status"} /\ resp.success = "true" =>
    LET d == devices[resp.device]
    IN  /\ d.status \in {"online", "offline"}
        /\ d.status = resp.status
        /\ d.status = "online" <=>
             \E k \in 1..Len(resp.seen) :
               resp.seen[k].id = d.hw /\ resp.seen[k].status = "device"

\* A connect_device has completed that adopted hB, which the agent lists as
\* unauthorized: the device is stored offline.
C13_Witness ==
  /\ resp.op = "connect_device"
  /\ resp.success = "true"
  /\ devices[resp.device].hw = "hB"
  /\ devices[resp.device].status = "offline"
  /\ \E k \in 1..Len(resp.seen) :
       resp.seen[k].id = "hB" /\ resp.seen[k].status = "unauthorized"

\* C14: a check_device_status whose status query fails to connect or times
\* out is answered with success and status offline, and has stored offline
\* and a new last_seen for the device.
C14_UnreachableIsOffline ==
  resp.op = "check_device_status" /\ resp.answer = "throw" =>
    /\ resp.success = "true"
    /\ resp.status = "offline"
    /\ devices[resp.device].status = "offline"
    /\ "last_seen" \in resp.stamped

\* The status query of a check_device_status got no answer, while a session
\* started when the device was online is still there: the device is offline.
C14_Witness ==
  /\ resp.op = "check_device_status"
  /\ resp.answer = "throw"
  /\ resp.reqs # <<>>
  /\ devices["d1"].status = "offline"
  /\ Len(sessions) = 1

\* C15: a connect_device that has stored the device stored it with the id of
\* the first device the agent enumerated, whatever id the caller gave, when
\* the agent enumerated one; with the caller's id when the agent enumerated
\* none or the enumeration was not obtained.
C15_FirstEnumeratedIdIsAdopted ==
  resp.op = "connect_device" /\ resp.success = "true" =>
    devices[resp.device].hw =
      IF Len(resp.listed) > 0 THEN resp.listed[1].id ELSE resp.given

\* A connect_device given hA has stored hB, the first device enumerated, and
\* another given hB has stored hB for want of an enumeration.
C15_Witness ==
  /\ resp.op = "connect_device"
  /\ resp.success = "true"
  /\ resp.given = "hA"
  /\ Len(resp.listed) = 2
  /\ devices[resp.device].hw = "hB"

\* C16: connect_device is an upsert keyed by the display name: at all
\* times at most one devices row has a given name, whether the calls come
\* one after another or concurrently, and a row keeps its durable id and
\* its name through every later call.
C16_OneRowPerName ==
  /\ [](\A d, e \in DOMAIN devices : devices[d].name = devices[e].name => d = e)
  /\ [][\A d \in DOMAIN devices :
          d \in DOMAIN devices' /\ devices'[d].name = devices[d].name]_vars

\* C17: check_device_status finds the device whether it is given the
\* device's durable id or its hardware id: the call succeeds for the device
\* that has the id passed.
C17_EitherIdFindsDevice ==
  resp.op = "check_device_status" /\ FindDevice(devices, resp.given) # NoId =>
    resp.success = "true" /\ resp.device = FindDevice(devices, resp.given)

\* C18: every bot_sessions row references one existing devices row by its
\* durable id; a session started with an id that is a durable id is created
\* for that device, whatever device has the id as hardware id, and one
\* started with any other id for the device that has it as hardware id.
C18_SessionReferencesDevice ==
  /\ [](\A k \in 1..Len(sessions) : sessions[k].dev \in DOMAIN devices)
  /\ [][StartReturns /\ Len(sessions') > Len(sessions) =>
          LET d == sessions'[Len(sessions')].dev
          IN  /\ d \in DOMAIN devices
              /\ resp'.given \in DOMAIN devices => d = resp'.given
              /\ resp'.given \notin DOMAIN devices => devices[d].hw = resp'.given]_vars

\* A session was started with the hardware id hA, then one with d1, which is
\* the durable id of one online device and the hardware id of another: both
\* sessions are on d1.
C18_Witness ==
  /\ resp.op = "start_bot_session" /\ resp.success = "true" /\ resp.given = "d1"
  /\ devices["d2"].hw = "d1" /\ devices["d2"].status = "online"
  /\ Len(sessions) = 2
  /\ sessions[1].dev = "d1" /\ sessions[2].dev = "d1"

\* A step in which invocation p's screenshot capture fails.
ShotFails(p) ==
  /\ loops[p].pc = "shot"
  /\ loops'[p] # loops[p]
  /\ loops'[p].nShot = loops[p].nShot

C20_RunNeverWritesStatus ==
  [][loops' # loops =>
       /\ Len(sessions') = Len(sessions)
       /\ \A s \in 1..Len(sessions) :
            /\ sessions'[s].status = sessions[s].status
            /\ sessions'[s].dev = sessions[s].dev
            /\ sessions'[s].game = sessions[s].game]_vars

\* The session was stopped while an invocation was in flight; the
\* invocation has sent an action whose POST failed and then made its final
\* write, the last write to the row, and the session is still stopped.
C20_Witness ==
  /\ loops[1].wrote /\ loops[1].read = "running"
  /\ loops[1].nAct = 1 /\ Len(actions) = 1 /\ ~actions[1].success
  /\ sessions[1].updated_at = "run"
  /\ sessions[1].status = "stopped"

\* C21: a call of the gateway sends at most two requests, the second one
\* with the alternate verb on the same route; when the agent answers the
\* POST /action of a cycle with 404 (no such verb or route), a second
\* request for that action is sent before the failure is recorded.
C21_RetriesOnceOnUnsupported ==
  \A p \in Procs :
    LET l == loops[p]
    IN  /\ Len(l.last) <= 2
        /\ Len(l.last) = 2 =>
              l.last[1].route = l.last[2].route /\ l.last[1].verb # l.last[2].verb
        /\ l.pc = "log" /\ l.answer = "404" => Len(l.last) = 2

\* C22: every tap a cycle of run_bot_loop sends has integer coordinates on
\* the 720x1280 screen, whatever the vision backend answered for x and y.
C22_TapsInsideScreen ==
  \A p \in Procs :
    LET l == loops[p]
    IN  l.pc \in {"act", "log"} /\ l.action.type = "tap" =>
          /\ l.action.coordinates.has /\ l.action.coordinates.num
          /\ l.action.coordinates.x \in 0..ScreenWidth
          /\ l.action.coordinates.y \in 0..ScreenHeight

\* C23: every screenshot and action request an invocation of run_bot_loop
\* sends for a session carries the hardware id stored on the session's
\* device, whatever deviceId the caller put in the payload.
C23_RequestsCarryStoredHardwareId ==
  \A p \in Procs :
    LET l == loops[p]
    IN  l.pc \in InFlight =>
          \A k \in 1..Len(l.last) : l.last[k].dev = devices[sessions[l.sid].dev].hw

\* C24: a call that resolves the agent's address uses the server_url of an
\* active adb_server_config row whenever there is one, whether or not
\* ADB_SERVER_URL is set; it uses ADB_SERVER_URL only when no row is active.
C24_ConfigStorePreferred ==
  [][/\ cfg' = cfg /\ upd' = upd
     /\ resp'.op = "check_device_status" /\ resp'.success = "true"
     => IF ActiveRows(cfg) # {}
        THEN \E i \in ActiveRows(cfg) : resp'.url = cfg[i].url
        ELSE resp'.url = envUrl]_vars

\* With ADB_SERVER_URL set, a call has used an address that the agent
\* announced to the config store.
C24_Witness ==
  /\ envUrl = "env"
  /\ resp.op = "check_device_status" /\ resp.success = "true"
  /\ resp.url \in Urls
  /\ Len(cfg) >= 2 /\ cfg[Len(cfg)].active /\ cfg[Len(cfg)].url = resp.url

\* The requests of a response that post to /action.
Posted(r) == {k \in 1..Len(r.reqs) : r.reqs[k].route = "/action"}

C26_ExclusionWins ==
  /\ resp.op = "filterGamePackages" =>
       \A k \in 1..Len(resp.games) : ~isSkippedPackage(resp.games[k].packageName)
  /\ resp.op = "handleScanApps" =>
       \A k \in 1..Len(resp.games) : ~isExcluded(resp.games[k].packageName)

\* filterGamePackages was given an excluded package that matches a game
\* pattern, an excluded package with a known-game prefix and a known game,
\* and has returned the known game alone.
C26_Witness ==
  /\ resp.op = "filterGamePackages"
  /\ resp.packages = <<PkgPlayGames, PkgPokerService, PkgCandyCrush>>
  /\ isSkippedPackage(PkgPlayGames) /\ matchesPattern(PkgPlayGames)
  /\ isSkippedPackage(PkgPokerService) /\ isKnownGame(PkgPokerService)
  /\ Len(resp.games) = 1 /\ resp.games[1].packageName = PkgCandyCrush

\* C27: stop_bot_session on a session that is already stopped succeeds and
\* leaves its status stopped, its counter, every other session and the
\* bot_actions rows as they are, so that a second stop changes nothing a
\* single stop has not changed.
C27_StopIsIdempotent ==
  [][\A sid \in 1..MaxSessions :
       StopBotSession(sid) /\ sid \in 1..Len(sessions) /\ sessions[sid].status = "stopped" =>
         /\ resp'.success = "true"
         /\ Len(sessions') = Len(sessions)
         /\ sessions'[sid].status = "stopped"
         /\ \A s \in 1..Len(sessions) :
              /\ sessions'[s].actions_performed = sessions[s].actions_performed
              /\ sessions'[s].status = sessions[s].status
         /\ actions' = actions]_vars

\* A stop has been answered with success for a session that is stopped,
\* after a run on it wrote its counter and a bot_actions row and a later
\* invocation was refused because the session was stopped already.
C27_Witness ==
  /\ resp.op = "stop_bot_session" /\ resp.success = "true"
  /\ sessions[1].status = "stopped" /\ sessions[1].updated_at = "stop"
  /\ sessions[1].actions_performed = 1 /\ Len(actions) = 1
  /\ loops[1].read = "stopped"

\* C28: pause and resume change only the status field of the session and
\* send no request to the agent; an invocation of the run issued while the
\* session is paused performs zero cycles (no screenshot, no action, no row,
\* no write, refused), and an invocation issued on the session once it is
\* running again enters its first cycle.
C28_PauseResumeStatusOnly ==
  /\ [][\A st \in {"paused", "active"} :
          handleGameStatusChange(1, st) =>
            /\ Len(sessions') = Len(sessions)
            /\ sessions'[1] = [sessions[1] EXCEPT !.status = sessions'[1].status]
            /\ sessions'[1].status = IF st = "paused" THEN "paused" ELSE "running"
            /\ \A s \in 2..Len(sessions) : sessions'[s] = sessions[s]
            /\ UNCHANGED <<devices, actions, loops, resp, conn, upd, cfg>>]_vars
  /\ [](\A p \in Procs :
          loops[p].read = "paused" =>
            /\ loops[p].pc = "idle" /\ loops[p].ret.success = "false"
            /\ loops[p].nReq = 0 /\ loops[p].nShot = 0 /\ loops[p].nAct = 0
            /\ loops[p].results = 0 /\ ~loops[p].wrote)
  /\ [][\A hw \in HwIds \cup {NoId}, n \in 0..MaxIter :
          RunBegin(1, 1, hw, n) /\ sessions[1].status = "paused" =>
            loops'[1].pc = "idle" /\ loops'[1].read = "paused"]_vars
  /\ [][\A hw \in HwIds \cup {NoId}, n \in 0..MaxIter :
          RunBegin(1, 1, hw, n) /\ sessions[1].status = "running" =>
            loops'[1].pc = "shot" /\ loops'[1].read = "running"]_vars

\* A run wrote a row, the session was paused, an invocation was refused
\* without a cycle, and the session has been resumed.
C28_Witness ==
  /\ sessions[1].status = "running" /\ sessions[1].updated_at = "run"
  /\ sessions[1].actions_performed = 1 /\ Len(actions) = 1
  /\ loops[1].read = "paused" /\ loops[1].nShot = 0

\* C29: a swipe whose body names a direction among up, down, left, right and
\* carries no duration is turned into the same command whatever the screen
\* of the device: the four numbers of that direction's entry in the static
\* table, followed by the default duration of 300 ms.
C29_SwipeVector ==
  resp.op = "/action" /\ resp.posted.type = "swipe" /\ ~resp.posted.duration.has
    /\ resp.posted.swipeDirection \in {"up", "down", "left", "right"} =>
      LET d == resp.posted.swipeDirection
          n == Len(resp.command)
      IN  /\ n >= 5
          /\ SubSeq(resp.command, n - 4, n) =
                (CASE d = "up"    -> <<540, 1500, 540, 500, 300>>
                   [] d = "down"  -> <<540, 500, 540, 1500, 300>>
                   [] d = "left"  -> <<900, 960, 100, 960, 300>>
                   [] d = "right" -> <<100, 960, 900, 960, 300>>)
          /\ resp.answer \in {"200", "500"}

\* A swipe to the left with no duration, for a device whose screen is
\* larger than the table's vectors assume, has been run.
C29_Witness ==
  /\ resp.op = "/action" /\ resp.answer = "200"
  /\ resp.posted.type = "swipe" /\ resp.posted.swipeDirection = "left"
  /\ ~resp.posted.duration.has /\ resp.screen = <<1440, 2560>>
  /\ resp.command = <<"adb", "-s", "hA", "shell", "input", "swipe", 900, 960, 100, 960, 300>>

RowsOf(sid) == Len(SelectSeq(actions, LAMBDA r : r.session_id = sid))

\* C31: an invocation of run_bot_loop reads the counter once, at its start,
\* and its final update stores that value plus the actions it sent itself,
\* whatever the counter has become meanwhile; with two invocations for one
\* session a state is reached (C31_Witness) in which both have completed and
\* the stored counter is smaller than the number of rows of the session.
C31_CounterWrittenFromOwnRead ==
  /\ [][\A p \in Procs :
          loops[p].pc \in InFlight =>
            /\ loops'[p].base = loops[p].base \/ loops'[p].pc = "idle"
            /\ (loops'[p].pc = "idle" =>
                  sessions'[loops[p].sid].actions_performed = loops[p].base + loops[p].nAct)]_vars
  /\ [](\A p \in Procs : loops[p].pc \in InFlight =>
          loops[p].actionsPerformed = loops[p].base + loops[p].nAct)

\* Both invocations have completed, each wrote one row, and the counter is 1.
C31_Witness ==
  /\ \A p \in Procs : loops[p].pc = "idle" /\ loops[p].wrote /\ loops[p].results = 1
  /\ RowsOf(1) = 2
  /\ sessions[1].actions_performed = 1

\* C32: whenever no run_bot_loop invocation is in flight, the counter of
\* every session equals the number of bot_actions rows that reference it.
C32_CounterEqualsRows ==
  (\A p \in Procs : loops[p].pc = "idle") =>
    \A sid \in 1..Len(sessions) : sessions[sid].actions_performed = RowsOf(sid)

\* C33: under the dashboard's timer at most one run_bot_loop invocation for
\* the session is in flight at any time.
C33_OneInvocationInFlight ==
  Cardinality({p \in Procs : loops[p].pc \in InFlight}) <= 1

\* C34: within one invocation of run_bot_loop the cycles follow one another:
\* a screenshot request is sent only when every action the invocation has
\* sent was answered and has its row written; the steps of a cycle are taken
\* in the order screenshot, analysis, action, row; and each step sends its
\* requests one after the other (a screenshot at most a POST and then a GET,
\* an action one POST).
C34_CyclesAreSequential ==
  /\ [](\A p \in Procs :
          loops[p].pc = "shot" =>
            /\ loops[p].nAct = loops[p].results
            /\ loops[p].answer = "none"
            /\ loops[p].actionsPerformed = loops[p].base + loops[p].results)
  /\ [][\A p \in Procs :
          /\ loops'[p].nShot > loops[p].nShot =>
               loops[p].pc = "shot" /\ loops[p].nAct = loops[p].results
                 /\ loops[p].nShot = loops[p].results
          /\ loops'[p].nAct > loops[p].nAct =>
               loops[p].pc = "act" /\ loops'[p].pc = "log" /\ Len(loops'[p].last) = 1
          /\ loops[p].pc = "log" /\ loops'[p].pc # "log" =>
               Len(actions') = Len(actions) + 1 /\ loops'[p].results = loops[p].results + 1
          /\ loops[p].pc = "shot" =>
               loops'[p].pc \in {"shot", "decide", "write"} /\ Len(loops'[p].last) <= 2
          /\ loops[p].pc = "decide" => loops'[p].pc \in {"decide", "act"}]_vars

\* The second cycle of an invocation has captured its screenshot: the action
\* of the first cycle was answered and its row is written.
C34_Witness ==
  /\ loops[1].pc = "decide" /\ loops[1].i = 1 /\ loops[1].nShot = 2
  /\ loops[1].nAct = 1 /\ loops[1].results = 1 /\ Len(actions) = 1

C36_FailedUpdateKeepsAddress ==
  (\A u \in Updaters : upd[u].pc = "idle") /\ (\E u \in Updaters : upd[u].ret = "false") =>
    getAdbServerUrl(cfg, envUrl) = cfg[Len(cfg)].url

\* C37: once the resolver returns the announced address u, it keeps
\* returning u over every step in which no address other than u is being
\* submitted (the announcement of u is repeated periodically).
C37_AnnouncedAddressStays ==
  [][\A u \in Urls :
       /\ getAdbServerUrl(cfg, envUrl) = u
       /\ \A w \in Updaters : upd[w].pc = "insert" => upd[w].url = u
       /\ \A w \in Updaters : upd'[w].pc = "insert" => upd'[w].url = u
       => getAdbServerUrl(cfg', envUrl) = u]_vars

\* C38: in every cycle with a captured screenshot the vision backend is
\* called exactly when a credential is configured, whatever the game, and at
\* most once in the cycle.
C38_VisionIffCredential ==
  \A p \in Procs :
    /\ loops[p].pc = "act" => (loops[p].vision # "none" <=> visionKey)
    /\ loops[p].nVis <= loops[p].nShot

\* C39: no two devices rows hold the same hardware id; the write of a
\* connect_device call whose adopted hardware id is held by another row (a
\* row with a different display name) fails: the call does not answer
\* success, no row is created and no row changes.
C39_HardwareIdIsUnique ==
  /\ [](\A d, e \in DOMAIN devices : devices[d].hw = devices[e].hw => d = e)
  /\ [][\A c \in Callers :
          /\ ConnectWrite(c)
          /\ \E d \in DOMAIN devices :
               devices[d].hw = conn[c].row.hw /\ devices[d].name # conn[c].row.name
          => /\ devices' = devices
             /\ resp'.op = "connect_device" /\ resp'.success # "true"
             /\ resp'.error = "duplicate key"]_vars

\* A call that registered the name n2 with the hardware id of the row n1
\* has been refused: the row n1 is the only one.
C39_Witness ==
  /\ resp.op = "connect_device" /\ resp.error = "duplicate key"
  /\ DOMAIN devices = {"d1"}
  /\ devices["d1"].name = "n1" /\ devices["d1"].hw = "hA"
  /\ resp.given = "hA"
  /\ \A c \in Callers : conn[c].pc = "idle"

====
